---- MODULE Spec2Model ----
(***************************************************************************)
(* The dice-game server: the state store (models.py), the game engine      *)
(* (game_engine.py) and the websockets dispatcher with its periodic        *)
(* sweeper (game_server.py), as one state machine.                         *)
(*                                                                         *)
(* Scheduling.  The server runs on one asyncio event loop: a task runs     *)
(* without interruption until it awaits something that is not ready.  The  *)
(* only such waits inside a handler, before its response is written, are   *)
(* the acquisitions of the store mutex GameState._lock (an asyncio.Lock,   *)
(* which is not reentrant and serves its waiters in FIFO order) when it is *)
(* not free.  One step of the model is therefore one task running from one *)
(* suspension to the next: a whole handler when the mutex is free, or the  *)
(* part of the handler before the acquisition on which it parks.  Two      *)
(* holders suspend while holding the mutex, remove_connection and          *)
(* cleanup_expired_sessions: both await leave_room, which waits for the    *)
(* mutex its caller holds.  Neither ever gets it; the mutex comes back     *)
(* only when the sweeper is cancelled at shutdown, and the parked tasks    *)
(* then resume one after the other.                                        *)
(*                                                                         *)
(* The handler actions start where process_message hands the decoded frame *)
(* to the handler: their clients send well-formed frames and stay under    *)
(* the rate limit.  The framing (process_message's length checks) and the  *)
(* rate limiter (check_rate_limit), which read and write no state of the   *)
(* store, are followed frame by frame in ProcessMessage.                   *)
(*                                                                         *)
(* The Tornado server (tornado_game_server.py) serves the same store with  *)
(* handlers that are scheduled on the IOLoop; its connection handler is    *)
(* modelled apart, in the actions of NextTornado.                          *)
(***************************************************************************)
EXTENDS Integers, Sequences, FiniteSets, TLC

(***************************************************************************)
(* Bounds of the model.                                                    *)
(***************************************************************************)
\* users created at start-up (5 in _initialize_default_users)
NumUsers == 2
\* rooms created at start-up (10 in _initialize_default_rooms)
NumRooms == 2
\* client connections accepted during a run
NumConns == 2
\* rounds created during a run (round ids are fresh uuids)
MaxRounds == 2
\* the clock stops here
MaxTime == 1801
\* Room.max_capacity, 50 in the code, scaled so that a room can fill
MaxCapacity == 1
\* the per-round bet cap, 10 in the code (game_engine.py:49), scaled so that
\* a round can fill; the rollover threshold is one less (game_engine.py:168)
MAX_BETS_PER_ROUND == 2
\* the frames a user may send within one window, 100 in the code
\* (game_server.py:187), scaled so that the limit is reached
RATE_LIMIT == 2
\* GameServer.max_connections, 100 by default, scaled so that the ceiling is reached
max_connections == 1

(***************************************************************************)
(* Program constants.                                                      *)
(***************************************************************************)
DEFAULT_BALANCE == 1000
SESSION_TIMEOUT == 1800
STALE_ROUND_TIMEOUT == 600
MIN_BET == 1
MAX_BET == 1000
PAYOUT_MULTIPLIER == 6
\* the size of the packet header, two little-endian 32-bit integers
HEADER_SIZE == 8
\* Command ID constants
C2S_SNAPSHOT_REQ == 3
\* the window of check_rate_limit and the age at which periodic_cleanup drops an entry
RATE_WINDOW == 60
RATE_PURGE_AFTER == 3600
\* Python's None / a falsy id: user ids, room ids, round ids and tokens start at 1
None == 0
\* the sweeper task (periodic_cleanup); connection tasks are 1..NumConns
Sweeper == 0

ROLLOVER_AT == MAX_BETS_PER_ROUND - 1

Users == 1..NumUsers
Rooms == 1..NumRooms
Conns == 1..NumConns
Tasks == {Sweeper} \cup Conns

\* GameRoundStatus
NO_ACTIVE_ROUND == "NO_ACTIVE_ROUND"
BETTING_PHASE == "BETTING_PHASE"
WAITING_RESULTS == "WAITING_RESULTS"

(***************************************************************************)
(* Inputs of the requests.                                                 *)
(***************************************************************************)
\* LoginRequest: <<username, password>>.  User u is named u and has the
\* password u; name 0 belongs to nobody and password 0 to no user.
\* the logins with the right password
GoodLogins == {<<u, u>> : u \in Users}
\* and a wrong password, an unknown user
LoginInputs == GoodLogins \cup {<<1, 0>>, <<0, 1>>}
\* RoomJoinRequest.room_id; room 0 does not exist
RoomInputs == 0..NumRooms
\* BetPlacementRequest.dice_face
FaceInputs == {0, 3, 7}
ValidFaces == {3}
\* BetPlacementRequest.amount
AmountInputs == {0, 500, 1001}
ValidAmounts == {500}
\* round_id of a request; 0 is the empty string (no round_id given)
RoundInputs == 0..MaxRounds
\* random.randint(1, 6): a roll that pays the face bet on, and one that does not
DiceOutcomes == {3, 4}
\* what the clock may advance by between two steps of the server
TickSteps == {1800, 1801}

VARIABLES
    game_state,      \* GameState: users, rooms, active_rounds, connections, user_connections
    lock,            \* GameState._lock: the set of tasks holding it (empty: free)
    waiters,         \* GameState._lock: the tasks parked on an acquisition, in FIFO order
    pc,              \* where each task is suspended
    locals,          \* the local variables of each parked handler
    running,         \* GameServer.running
    now,             \* datetime.now(), in seconds since start-up
    next_round_id,   \* the next fresh round uuid
    last,            \* the last event: the frame handled and the response sent
    ledger,          \* history: stakes accepted and settlements computed
    rate_limits,     \* GameServer.rate_limits: user_id -> <<last_message_time, message_count>>
    dispatched,      \* history: per user, when each frame of the last minute reached its handler
    handlers,        \* the GameWebSocketHandler of each connection of the Tornado server
    callbacks        \* the callbacks scheduled on the IOLoop with add_callback, in FIFO order

vars == <<game_state, lock, waiters, pc, locals, running, now, next_round_id, last, ledger,
          rate_limits, dispatched, handlers, callbacks>>

(***************************************************************************)
(* models.py: User, Room, BetData, GameRound                               *)
(***************************************************************************)
create_user(user_id, balance) ==
    [user_id |-> user_id, username |-> user_id, password |-> user_id,
     balance |-> balance, session_token |-> None, last_activity |-> 0,
     current_room |-> None]

verify_password(user, password) == password = user.password

\* generate_session_token; `token` is the fresh uuid
generate_session_token(user, token, t) ==
    [user EXCEPT !.session_token = token, !.last_activity = t]

is_session_expired(user, t) ==
    IF user.session_token = None
    THEN TRUE
    ELSE t - user.last_activity > SESSION_TIMEOUT

create_room(room_id) ==
    [room_id |-> room_id, max_capacity |-> MaxCapacity,
     current_players |-> {}, jackpot_pool |-> 0]

\* add_player without the capacity check of models.py:65-66
add_player_unchecked(room, user_id) ==
    [ok |-> TRUE, room |-> [room EXCEPT !.current_players = @ \cup {user_id}]]

\* Room.add_player: [ok, room]
add_player(room, user_id) ==
    IF Cardinality(room.current_players) >= room.max_capacity
    THEN [ok |-> FALSE, room |-> room]
    ELSE [ok |-> TRUE,
          room |-> [room EXCEPT !.current_players = @ \cup {user_id}]]

remove_player(room, user_id) ==
    [room EXCEPT !.current_players = @ \ {user_id}]

\* create_bet with the face and the amount in each other's place
create_bet_swapped(user_id, round_id, position, dice_face, amount) ==
    [bet_id |-> <<round_id, position>>, user_id |-> user_id,
     round_id |-> round_id, dice_face |-> amount, amount |-> dice_face,
     won |-> "None", payout |-> None]

\* BetData.create_bet; the fresh bet uuid is the pair <<round, position>>
create_bet(user_id, round_id, position, dice_face, amount) ==
    [bet_id |-> <<round_id, position>>, user_id |-> user_id,
     round_id |-> round_id, dice_face |-> dice_face, amount |-> amount,
     won |-> "None", payout |-> None]

create_round(round_id, user_id, room_id, t) ==
    [round_id |-> round_id, user_id |-> user_id, room_id |-> room_id,
     bets |-> <<>>, status |-> BETTING_PHASE, dice_result |-> None,
     total_winnings |-> 0, created_at |-> t]

\* add_bet putting the new bet first
add_bet_first(round, bet) == [round EXCEPT !.bets = <<bet>> \o @]

add_bet(round, bet) == [round EXCEPT !.bets = Append(@, bet)]

round_finish_betting(round) == [round EXCEPT !.status = WAITING_RESULTS]

RECURSIVE SumSeq(_)
SumSeq(s) == IF s = <<>> THEN 0 ELSE Head(s) + SumSeq(Tail(s))

\* a settlement that pays the stake without the multiplier
settle_bet_at_par(bet, dice_result) ==
    LET won == bet.dice_face = dice_result
    IN  [bet EXCEPT !.won = IF won THEN "True" ELSE "False",
                    !.payout = IF won THEN bet.amount ELSE 0]

settle_bet(bet, dice_result) ==
    LET won == bet.dice_face = dice_result
    IN  [bet EXCEPT !.won = IF won THEN "True" ELSE "False",
                    !.payout = IF won THEN bet.amount * PAYOUT_MULTIPLIER ELSE 0]

\* GameRound.calculate_results: the round with every bet settled
round_calculate_results(round, dice_result) ==
    LET bets == [i \in 1..Len(round.bets) |-> settle_bet(round.bets[i], dice_result)]
    IN  [round EXCEPT !.bets = bets,
                      !.dice_result = dice_result,
                      !.total_winnings = SumSeq([i \in 1..Len(bets) |-> bets[i].payout])]

(***************************************************************************)
(* models.py: GameState.  Each operator is the body the method runs once   *)
(* it holds the mutex; the actions below decide whether it gets it.        *)
(***************************************************************************)
initial_game_state ==
    [users |-> [u \in Users |-> create_user(u, DEFAULT_BALANCE)],
     rooms |-> [r \in Rooms |-> create_room(r)],
     active_rounds |-> <<>>,
     connections |-> <<>>,
     user_connections |-> <<>>]

\* dict.pop(key, None) and dict[key] = value on a mapping
Pop(f, k) == [x \in DOMAIN f \ {k} |-> f[x]]
Put(f, k, v) == (k :> v) @@ f

\* position of a round in active_rounds (a dict, kept in insertion order); 0: absent
RoundIndex(gs, round_id) ==
    LET hits == {i \in 1..Len(gs.active_rounds) : gs.active_rounds[i].round_id = round_id}
    IN  IF hits = {} THEN 0 ELSE CHOOSE i \in hits : TRUE

\* a lookup that never finds the user's BETTING round
NoBettingIndex(gs, user_id) == 0

\* a lookup that takes the first BETTING round of whichever user
AnyBettingIndex(gs, user_id) ==
    LET hits == {i \in 1..Len(gs.active_rounds) :
                    gs.active_rounds[i].status = BETTING_PHASE}
    IN  IF hits = {} THEN 0 ELSE CHOOSE i \in hits : \A j \in hits : i <= j

\* position of the first BETTING round of the user in iteration order; 0: none
FirstBettingIndex(gs, user_id) ==
    LET hits == {i \in 1..Len(gs.active_rounds) :
                    /\ gs.active_rounds[i].user_id = user_id
                    /\ gs.active_rounds[i].status = BETTING_PHASE}
    IN  IF hits = {} THEN 0 ELSE CHOOSE i \in hits : \A j \in hits : i <= j

\* position of the first round of the user in iteration order; 0: none
FirstRoundIndex(gs, user_id) ==
    LET hits == {i \in 1..Len(gs.active_rounds) : gs.active_rounds[i].user_id = user_id}
    IN  IF hits = {} THEN 0 ELSE CHOOSE i \in hits : \A j \in hits : i <= j

\* authenticate_user without the live-session check of models.py:187-188
authenticate_user_unchecked(gs, username, password, token, t) ==
    LET hits == {u \in DOMAIN gs.users :
                    /\ gs.users[u].username = username
                    /\ gs.users[u].password = password}
    IN  IF hits = {}
        THEN [user_id |-> None, gs |-> gs]
        ELSE LET u == CHOOSE x \in hits : \A y \in hits : x <= y
             IN  [user_id |-> u,
                  gs |-> [gs EXCEPT !.users[u].session_token = token,
                                    !.users[u].last_activity = t]]

\* authenticate_user: [user_id, gs]; user_id None when the login is refused
authenticate_user(gs, username, password, token, t) ==
    LET hits == {u \in DOMAIN gs.users :
                    /\ gs.users[u].username = username
                    /\ verify_password(gs.users[u], password)}
    IN  IF hits = {}
        THEN [user_id |-> None, gs |-> gs]
        ELSE LET u == CHOOSE x \in hits : \A y \in hits : x <= y
                 user == gs.users[u]
             IN  IF user.session_token # None /\ ~is_session_expired(user, t)
                 THEN [user_id |-> None, gs |-> gs]
                 ELSE [user_id |-> u,
                       gs |-> [gs EXCEPT !.users[u] = generate_session_token(user, token, t)]]

\* join_room: [ok, gs]
join_room(gs, user_id, room_id) ==
    IF user_id \notin DOMAIN gs.users \/ room_id \notin DOMAIN gs.rooms
    THEN [ok |-> FALSE, gs |-> gs]
    ELSE LET user == gs.users[user_id]
             left == IF user.current_room # None /\ user.current_room \in DOMAIN gs.rooms
                     THEN [gs.rooms EXCEPT ![user.current_room] = remove_player(@, user_id)]
                     ELSE gs.rooms
             added == add_player(left[room_id], user_id)
         IN  IF added.ok
             THEN [ok |-> TRUE,
                   gs |-> [gs EXCEPT !.rooms = [left EXCEPT ![room_id] = added.room],
                                     !.users[user_id].current_room = room_id]]
             ELSE [ok |-> FALSE, gs |-> [gs EXCEPT !.rooms = left]]

leave_room(gs, user_id) ==
    IF user_id \in DOMAIN gs.users /\ gs.users[user_id].current_room # None
    THEN LET room_id == gs.users[user_id].current_room
             rooms == IF room_id \in DOMAIN gs.rooms
                      THEN [gs.rooms EXCEPT ![room_id] = remove_player(@, user_id)]
                      ELSE gs.rooms
         IN  [gs EXCEPT !.rooms = rooms, !.users[user_id].current_room = None]
    ELSE gs

add_connection(gs, websocket, user_id) ==
    [gs EXCEPT !.connections = Put(@, websocket, user_id),
               !.user_connections = Put(@, user_id, websocket)]

\* remove_connection up to its first suspension: [suspended, user_id, gs].  With a user
\* bound it awaits leave_room (models.py:248) while it holds the mutex that
\* leave_room acquires, and lines 250-252 are never reached.
remove_connection(gs, websocket) ==
    LET user_id == IF websocket \in DOMAIN gs.connections
                   THEN gs.connections[websocket] ELSE None
        popped == [gs EXCEPT !.connections = Pop(@, websocket)]
    IN  IF user_id # None
        THEN [suspended |-> TRUE, user_id |-> user_id,
              gs |-> [popped EXCEPT !.user_connections = Pop(@, user_id)]]
        ELSE [suspended |-> FALSE, user_id |-> None, gs |-> popped]

\* a lookup that answers for an unbound connection with a user who is logged in
get_user_by_connection_shared(gs, websocket) ==
    LET bound == /\ websocket \in DOMAIN gs.connections
                 /\ gs.connections[websocket] # None
                 /\ gs.connections[websocket] \in DOMAIN gs.users
        logged_in == {u \in DOMAIN gs.users : gs.users[u].session_token # None}
    IN  IF bound THEN gs.connections[websocket]
        ELSE IF logged_in # {} THEN CHOOSE u \in logged_in : TRUE
        ELSE None

get_user_by_connection(gs, websocket) ==
    IF websocket \in DOMAIN gs.connections
       /\ gs.connections[websocket] # None
       /\ gs.connections[websocket] \in DOMAIN gs.users
    THEN gs.connections[websocket]
    ELSE None

\* create_game_round: [round_id, gs]; round_id None when the user is in no room
create_game_round(gs, user_id, fresh, t) ==
    IF user_id \notin DOMAIN gs.users \/ gs.users[user_id].current_room = None
    THEN [round_id |-> None, gs |-> gs]
    ELSE LET i == FirstBettingIndex(gs, user_id)
         IN  IF i # 0
             THEN [round_id |-> gs.active_rounds[i].round_id, gs |-> gs]
             ELSE [round_id |-> fresh,
                   gs |-> [gs EXCEPT !.active_rounds =
                              Append(@, create_round(fresh, user_id,
                                                     gs.users[user_id].current_room, t))]]

\* a finish_game_round that leaves the round in active_rounds
keep_game_round(gs, round_id) == gs

finish_game_round(gs, round_id) ==
    [gs EXCEPT !.active_rounds = SelectSeq(@, LAMBDA r : r.round_id # round_id)]

\* cleanup_expired_sessions up to its first suspension: [suspended, user_id, gs].  The
\* expired users are visited in dict order; the first one that is in a room
\* makes it await leave_room (models.py:294) while it holds the mutex.
cleanup_expired_sessions(gs, t) ==
    LET expired == {u \in DOMAIN gs.users : is_session_expired(gs.users[u], t)}
        in_room == {u \in expired : gs.users[u].current_room # None}
        stop == IF in_room = {} THEN None
                ELSE CHOOSE u \in in_room : \A v \in in_room : u <= v
        visited == IF stop = None THEN expired ELSE {u \in expired : u <= stop}
    IN  [suspended |-> stop # None, user_id |-> stop,
         gs |-> [gs EXCEPT !.users = [u \in DOMAIN @ |->
                    IF u \in visited THEN [@[u] EXCEPT !.session_token = None] ELSE @[u]]]]

(***************************************************************************)
(* game_engine.py: GameEngine.  `free` tells whether the store mutex is    *)
(* free when the operation reaches an acquisition; when it is not, the     *)
(* result has parked = TRUE and gs is the store as the task leaves it on   *)
(* suspending.                                                             *)
(***************************************************************************)
\* get_or_create_active_round without the rollover of game_engine.py:168-171
get_or_create_without_rollover(gs, user_id, free, fresh, t) ==
    LET i == FirstBettingIndex(gs, user_id)
    IN  IF i # 0
        THEN [parked |-> FALSE, round_id |-> gs.active_rounds[i].round_id, gs |-> gs]
        ELSE IF ~free
        THEN [parked |-> TRUE, round_id |-> None, gs |-> gs]
        ELSE LET made == create_game_round(gs, user_id, fresh, t)
             IN  [parked |-> FALSE, round_id |-> made.round_id, gs |-> made.gs]

\* get_or_create_active_round: [parked, round_id, gs]
get_or_create_active_round(gs, user_id, free, fresh, t) ==
    LET i == FirstBettingIndex(gs, user_id)
        rollover == i # 0 /\ Len(gs.active_rounds[i].bets) >= ROLLOVER_AT
        gs1 == IF rollover
               THEN [gs EXCEPT !.active_rounds[i] = round_finish_betting(@)]
               ELSE gs
    IN  IF i # 0 /\ ~rollover
        THEN [parked |-> FALSE, round_id |-> gs.active_rounds[i].round_id, gs |-> gs]
        ELSE IF ~free
        THEN [parked |-> TRUE, round_id |-> None, gs |-> gs1]
        ELSE LET made == create_game_round(gs1, user_id, fresh, t)
             IN  [parked |-> FALSE, round_id |-> made.round_id, gs |-> made.gs]

PlaceBetFailure(gs, message) ==
    [parked |-> FALSE, ok |-> FALSE, message |-> message, bet_id |-> None,
     round_id |-> None, gs |-> gs]

\* place_bet_in_round with the checks of game_engine.py:45-50 in the other order
place_bet_cap_first(gs, user_id, dice_face, amount, round_id) ==
    LET i == RoundIndex(gs, round_id)
        game_round == gs.active_rounds[i]
        bet == create_bet(user_id, round_id, Len(game_round.bets) + 1, dice_face, amount)
    IN  IF Len(game_round.bets) >= MAX_BETS_PER_ROUND
        THEN PlaceBetFailure(gs, "Maximum bets per round exceeded")
        ELSE IF game_round.status # BETTING_PHASE
        THEN PlaceBetFailure(gs, "Betting phase has ended")
        ELSE [parked |-> FALSE, ok |-> TRUE, message |-> "Bet placed successfully",
              bet_id |-> bet.bet_id, round_id |-> round_id,
              gs |-> [gs EXCEPT !.users[user_id].balance = @ - amount,
                                !.active_rounds[i] = add_bet(@, bet)]]

\* place_bet_in_round without the cap check of game_engine.py:49-50
place_bet_uncapped(gs, user_id, dice_face, amount, round_id) ==
    LET i == RoundIndex(gs, round_id)
        game_round == gs.active_rounds[i]
        bet == create_bet(user_id, round_id, Len(game_round.bets) + 1, dice_face, amount)
    IN  IF game_round.status # BETTING_PHASE
        THEN PlaceBetFailure(gs, "Betting phase has ended")
        ELSE [parked |-> FALSE, ok |-> TRUE, message |-> "Bet placed successfully",
              bet_id |-> bet.bet_id, round_id |-> round_id,
              gs |-> [gs EXCEPT !.users[user_id].balance = @ - amount,
                                !.active_rounds[i] = add_bet(@, bet)]]

\* place_bet from the status check on (game_engine.py:45-61), the round found
place_bet_in_round(gs, user_id, dice_face, amount, round_id) ==
    LET i == RoundIndex(gs, round_id)
        game_round == gs.active_rounds[i]
        bet == create_bet(user_id, round_id, Len(game_round.bets) + 1, dice_face, amount)
    IN  IF game_round.status # BETTING_PHASE
        THEN PlaceBetFailure(gs, "Betting phase has ended")
        ELSE IF Len(game_round.bets) >= MAX_BETS_PER_ROUND
        THEN PlaceBetFailure(gs, "Maximum bets per round exceeded")
        ELSE [parked |-> FALSE, ok |-> TRUE, message |-> "Bet placed successfully",
              bet_id |-> bet.bet_id, round_id |-> round_id,
              gs |-> [gs EXCEPT !.users[user_id].balance = @ - amount,
                                !.active_rounds[i] = add_bet(@, bet)]]

\* place_bet: [parked, ok, message, bet_id, round_id, gs]; round_id is the round
\* that received the bet (not part of the method's result)
place_bet(gs, user_id, dice_face, amount, round_id, free, fresh, t) ==
    IF user_id \notin DOMAIN gs.users
    THEN PlaceBetFailure(gs, "User not found")
    ELSE IF dice_face < 1 \/ dice_face > 6
    THEN PlaceBetFailure(gs, "Invalid dice face (must be 1-6)")
    ELSE IF amount < MIN_BET \/ amount > MAX_BET
    THEN PlaceBetFailure(gs, "Invalid bet amount (1-1000)")
    ELSE IF gs.users[user_id].balance < amount
    THEN PlaceBetFailure(gs, "Insufficient balance")
    ELSE IF round_id # None
    THEN IF RoundIndex(gs, round_id) = 0
            \/ gs.active_rounds[RoundIndex(gs, round_id)].user_id # user_id
         THEN PlaceBetFailure(gs, "Invalid round")
         ELSE place_bet_in_round(gs, user_id, dice_face, amount, round_id)
    ELSE LET got == get_or_create_active_round(gs, user_id, free, fresh, t)
         IN  IF got.parked
             THEN [parked |-> TRUE, ok |-> FALSE, message |-> "", bet_id |-> None,
                   round_id |-> None, gs |-> got.gs]
             ELSE IF got.round_id = None
             THEN PlaceBetFailure(got.gs, "Failed to create game round")
             ELSE place_bet_in_round(got.gs, user_id, dice_face, amount, got.round_id)

\* finish_betting refusing a round that is WAITING_RESULTS already
finish_betting_once(gs, user_id, round_id) ==
    LET i == RoundIndex(gs, round_id)
    IN  IF i = 0
        THEN [ok |-> TRUE, message |-> "Round already processed", gs |-> gs]
        ELSE IF gs.active_rounds[i].user_id # user_id
        THEN [ok |-> FALSE, message |-> "Round does not belong to user", gs |-> gs]
        ELSE IF gs.active_rounds[i].status # BETTING_PHASE
        THEN [ok |-> FALSE, message |-> "Round is not in betting phase", gs |-> gs]
        ELSE IF gs.active_rounds[i].bets = <<>>
        THEN [ok |-> FALSE, message |-> "No bets placed in current round", gs |-> gs]
        ELSE [ok |-> TRUE, message |-> "Betting phase completed",
              gs |-> [gs EXCEPT !.active_rounds[i] = round_finish_betting(@)]]

\* finish_betting: [ok, message, gs]
finish_betting(gs, user_id, round_id) ==
    LET i == RoundIndex(gs, round_id)
    IN  IF i = 0
        THEN [ok |-> TRUE, message |-> "Round already processed", gs |-> gs]
        ELSE IF gs.active_rounds[i].user_id # user_id
        THEN [ok |-> FALSE, message |-> "Round does not belong to user", gs |-> gs]
        ELSE IF gs.active_rounds[i].status # BETTING_PHASE
        THEN [ok |-> TRUE, message |-> "Round already finished", gs |-> gs]
        ELSE IF gs.active_rounds[i].bets = <<>>
        THEN [ok |-> FALSE, message |-> "No bets placed in current round", gs |-> gs]
        ELSE [ok |-> TRUE, message |-> "Betting phase completed",
              gs |-> [gs EXCEPT !.active_rounds[i] = round_finish_betting(@)]]

NoResults ==
    [dice_result |-> 3, bet_results |-> <<>>, total_winnings |-> 0,
     new_balance |-> 0, jackpot_pool |-> 0]

\* calculate_results: [parked, settled, ok, message, results, gs]; settled tells
\* whether the round's results were computed and credited
calculate_results(gs, user_id, round_id, dice_result, free) ==
    LET i == RoundIndex(gs, round_id)
    IN  IF i = 0
        THEN [parked |-> FALSE, settled |-> FALSE, ok |-> TRUE,
              message |-> "Results already calculated", results |-> NoResults, gs |-> gs]
        ELSE IF gs.active_rounds[i].user_id # user_id
        THEN [parked |-> FALSE, settled |-> FALSE, ok |-> FALSE,
              message |-> "Round does not belong to user", results |-> NoResults, gs |-> gs]
        ELSE LET game_round == round_calculate_results(
                                   round_finish_betting(gs.active_rounds[i]), dice_result)
                 total_winnings == game_round.total_winnings
                 total_bet_amount ==
                     SumSeq([k \in 1..Len(game_round.bets) |-> game_round.bets[k].amount])
                 has_user == user_id \in DOMAIN gs.users
                 room_id == IF has_user THEN gs.users[user_id].current_room ELSE None
                 has_room == room_id # None /\ room_id \in DOMAIN gs.rooms
                 users == IF has_user
                          THEN [gs.users EXCEPT ![user_id].balance = @ + total_winnings]
                          ELSE gs.users
                 rooms == IF has_room
                          THEN [gs.rooms EXCEPT ![room_id].jackpot_pool =
                                                    @ + (total_bet_amount \div 100)]
                          ELSE gs.rooms
                 credited == [gs EXCEPT !.users = users, !.rooms = rooms,
                                        !.active_rounds[i] = game_round]
                 results == [dice_result |-> dice_result,
                             bet_results |-> game_round.bets,
                             total_winnings |-> total_winnings,
                             new_balance |-> IF has_user THEN users[user_id].balance ELSE 0,
                             jackpot_pool |-> IF has_room THEN rooms[room_id].jackpot_pool ELSE 0]
             IN  IF free
                 THEN [parked |-> FALSE, settled |-> TRUE, ok |-> TRUE,
                       message |-> "Results calculated successfully", results |-> results,
                       gs |-> finish_game_round(credited, round_id)]
                 ELSE [parked |-> TRUE, settled |-> TRUE, ok |-> FALSE, message |-> "",
                       results |-> results, gs |-> credited]

\* get_user_snapshot
get_user_snapshot(gs, user_id) ==
    LET user == gs.users[user_id]
        i == FirstRoundIndex(gs, user_id)
        has_room == user.current_room # None /\ user.current_room \in DOMAIN gs.rooms
    IN  [user_balance |-> user.balance,
         active_bets |-> IF i = 0 THEN <<>> ELSE gs.active_rounds[i].bets,
         current_room |-> user.current_room,
         jackpot_pool |-> IF has_room THEN gs.rooms[user.current_room].jackpot_pool ELSE 0,
         round_status |-> IF i = 0 THEN NO_ACTIVE_ROUND ELSE gs.active_rounds[i].status]

\* a sweep that takes a round as stale when its age reaches the timeout
cleanup_stale_rounds_early(gs, t) ==
    [gs EXCEPT !.active_rounds =
        SelectSeq(@, LAMBDA r : ~(t - r.created_at >= STALE_ROUND_TIMEOUT))]

\* cleanup_stale_rounds; every finish_game_round finds the mutex free, because
\* the sweeper reaches this call only after cleanup_expired_sessions released it
cleanup_stale_rounds(gs, t) ==
    [gs EXCEPT !.active_rounds =
        SelectSeq(@, LAMBDA r : ~(t - r.created_at > STALE_ROUND_TIMEOUT))]

(***************************************************************************)
(* game_server.py: GameServer.  One action per frame handled or task step. *)
(***************************************************************************)
\* Error codes
ERROR_AUTH_REQUIRED == 1001
ERROR_INVALID_BET == 1004

ERROR_INVALID_FORMAT == 1000
ERROR_RATE_LIMIT == 1006

\* a limiter that lets the frame that finds the counter at the cap through
check_rate_limit_lax(limits, user_id, t) ==
    IF user_id \in DOMAIN limits
    THEN LET last_time == limits[user_id][1]
             count == limits[user_id][2]
         IN  IF t - last_time < RATE_WINDOW
             THEN IF count > RATE_LIMIT
                  THEN [ok |-> FALSE, rate_limits |-> limits]
                  ELSE [ok |-> TRUE, rate_limits |-> Put(limits, user_id, <<last_time, count + 1>>)]
             ELSE [ok |-> TRUE, rate_limits |-> Put(limits, user_id, <<t, 1>>)]
    ELSE [ok |-> TRUE, rate_limits |-> Put(limits, user_id, <<t, 1>>)]

\* a limiter whose window origin moves to every frame it counts
check_rate_limit_sliding(limits, user_id, t) ==
    IF user_id \in DOMAIN limits
    THEN LET last_time == limits[user_id][1]
             count == limits[user_id][2]
         IN  IF t - last_time < RATE_WINDOW
             THEN IF count >= RATE_LIMIT
                  THEN [ok |-> FALSE, rate_limits |-> limits]
                  ELSE [ok |-> TRUE, rate_limits |-> Put(limits, user_id, <<t, count + 1>>)]
             ELSE [ok |-> TRUE, rate_limits |-> Put(limits, user_id, <<t, 1>>)]
    ELSE [ok |-> TRUE, rate_limits |-> Put(limits, user_id, <<t, 1>>)]

\* check_rate_limit: [ok, rate_limits]; an entry is <<last_time, count>>
check_rate_limit(limits, user_id, t) ==
    IF user_id \in DOMAIN limits
    THEN LET last_time == limits[user_id][1]
             count == limits[user_id][2]
         IN  IF t - last_time < RATE_WINDOW
             THEN IF count >= RATE_LIMIT
                  THEN [ok |-> FALSE, rate_limits |-> limits]
                  ELSE [ok |-> TRUE, rate_limits |-> Put(limits, user_id, <<last_time, count + 1>>)]
             ELSE [ok |-> TRUE, rate_limits |-> Put(limits, user_id, <<t, 1>>)]
    ELSE [ok |-> TRUE, rate_limits |-> Put(limits, user_id, <<t, 1>>)]

\* the purge of periodic_cleanup (game_server.py:436-442)
purge_rate_limits(limits, t) ==
    LET expired_users == {u \in DOMAIN limits : t - limits[u][1] > RATE_PURGE_AFTER}
    IN  [u \in DOMAIN limits \ expired_users |-> limits[u]]

\* uuid.uuid4() for a session: a token no user holds
fresh_token(gs) ==
    CHOOSE k \in 1..(NumUsers + 1) :
        /\ \A u \in DOMAIN gs.users : gs.users[u].session_token # k
        /\ \A j \in 1..(k - 1) : \E u \in DOMAIN gs.users : gs.users[u].session_token = j

\* an event: the task, the frame it handled (cmd, req) and what it sent back
Event(task, cmd, req, rsp, ok, message, data) ==
    [task |-> task, cmd |-> cmd, req |-> req, rsp |-> rsp, ok |-> ok,
     message |-> message, data |-> data]

\* `last` when the run does not record events
Unrecorded == Event(Sweeper, "off", <<>>, "off", FALSE, "", <<>>)

Record(event) == last' = IF last.rsp = "off" THEN last ELSE event

\* asyncio.Lock.acquire returns at once only when the mutex is free and no
\* task is queued for it
Contended == lock # {} \/ waiters # <<>>

NoLocals ==
    [cmd |-> "", user_id |-> None, username |-> None, password |-> None,
     room_id |-> None, dice_face |-> None, amount |-> None, round_id |-> None,
     results |-> NoResults,
     response |-> [session_token |-> None, user_id |-> None, balance |-> 0]]

\* the task suspends in the handler, queued for the mutex: nothing is sent
Parked(task, cmd, req, at, saved) ==
    /\ pc' = [pc EXCEPT ![task] = at]
    /\ waiters' = Append(waiters, task)
    /\ locals' = [locals EXCEPT ![task] = [saved EXCEPT !.cmd = cmd]]
    /\ Record(Event(task, cmd, req, "none", FALSE, "", <<>>))

\* the handler runs to the end of the frame without suspending
Handled(task) ==
    /\ pc' = [pc EXCEPT ![task] = "recv"]
    /\ locals' = [locals EXCEPT ![task] = NoLocals]

\* send_error
SendError(task, cmd, req, error_code, message) ==
    Record(Event(task, cmd, req, "ERROR_RSP", FALSE, message, [error_code |-> error_code]))

\* GameWebSocketHandler.initialize; ws is the state of the WebSocket, and
\* logged_in the history of the users handle_login authenticated on it
initialize ==
    [ws |-> "new", authenticated |-> FALSE, user_id |-> None, logged_in |-> {}]

initial_ledger ==
    [staked |-> [u \in Users |-> 0], settled |-> <<>>]

\* the server after start_server created the sweeper, no client yet
Started ==
    /\ game_state = initial_game_state
    /\ lock = {}
    /\ waiters = <<>>
    /\ pc = [t \in Tasks |-> IF t = Sweeper THEN "sleep" ELSE "start"]
    /\ locals = [t \in Tasks |-> NoLocals]
    /\ running = TRUE
    /\ now = 0
    /\ next_round_id = 1
    /\ ledger = initial_ledger
    /\ rate_limits = <<>>
    /\ dispatched = [u \in Users |-> <<>>]
    /\ handlers = [c \in Conns |-> initialize]
    /\ callbacks = <<>>

(***************************************************************************)
(* The responses, built from the store as it is when they are sent.        *)
(***************************************************************************)
\* the fields of LoginResponse read from the user (game_server.py:210-212)
LoginFields(gs, user_id) ==
    [session_token |-> gs.users[user_id].session_token,
     user_id |-> user_id,
     balance |-> gs.users[user_id].balance]

LoginResponse(c, req, gs, user_id) ==
    IF user_id # None
    THEN Event(c, "LOGIN_REQ", req, "LOGIN_RSP", TRUE, "Login successful",
               LoginFields(gs, user_id))
    ELSE Event(c, "LOGIN_REQ", req, "LOGIN_RSP", FALSE,
               "Invalid credentials or user already logged in",
               NoLocals.response)

RoomJoinResponse(c, gs, room_id, ok) ==
    Event(c, "ROOM_JOIN_REQ", <<room_id>>, "ROOM_JOIN_RSP", ok,
          IF ok THEN "Joined room successfully"
          ELSE "Failed to join room (room full or invalid)",
          IF ok
          THEN [room_id |-> room_id,
                player_count |-> Cardinality(gs.rooms[room_id].current_players),
                jackpot_pool |-> gs.rooms[room_id].jackpot_pool]
          ELSE [room_id |-> 0, player_count |-> 0, jackpot_pool |-> 0])

\* the round_id of the response is the one of the request or, without one, the
\* first round of the user in the active set (game_server.py:311-318)
BetPlacementResponse(c, req, placed, user_id, round_id) ==
    LET first == FirstRoundIndex(placed.gs, user_id)
    IN  Event(c, "BET_PLACEMENT_REQ", req, "BET_PLACEMENT_RSP", placed.ok, placed.message,
              [bet_id |-> placed.bet_id,
               round_id |-> IF ~placed.ok THEN None
                            ELSE IF round_id # None THEN round_id
                            ELSE IF first # 0
                            THEN placed.gs.active_rounds[first].round_id
                            ELSE None,
               remaining_balance |-> placed.gs.users[user_id].balance])

ReckonResultResponse(c, round_id, message, results) ==
    Event(c, "RECKON_RESULT_REQ", <<round_id>>, "RECKON_RESULT_RSP", TRUE, message,
          [round_id |-> round_id, results |-> results])

(***************************************************************************)
(* The handlers.                                                           *)
(***************************************************************************)
\* handle_client up to its receive loop (game_server.py:126-135)
Connect(c) ==
    /\ running
    /\ UNCHANGED <<handlers, callbacks, rate_limits, dispatched>>
    /\ pc[c] = "start"
    /\ UNCHANGED <<lock, running, now, next_round_id, ledger>>
    /\ IF Contended
       THEN /\ Parked(c, "connect", <<>>, "lock:add_connection", NoLocals)
            /\ UNCHANGED game_state
       ELSE /\ game_state' = add_connection(game_state, c, None)
            /\ Handled(c)
            /\ Record(Event(c, "connect", <<>>, "none", TRUE, "", <<>>))
            /\ UNCHANGED waiters

\* remove_connection once the task holds the mutex
RemoveConnection(c) ==
    LET removed == remove_connection(game_state, c)
    IN  /\ game_state' = removed.gs
        /\ lock' = IF removed.suspended THEN {c} ELSE {}
        /\ pc' = [pc EXCEPT ![c] = IF removed.suspended
                                   THEN "lock:leave_room" ELSE "closed"]
        /\ locals' = [locals EXCEPT ![c] = IF removed.suspended
                                           THEN [NoLocals EXCEPT !.cmd = "close",
                                                                 !.user_id = removed.user_id]
                                           ELSE NoLocals]
        /\ Record(Event(c, "close", <<>>, "none", ~removed.suspended, "", <<>>))

\* the client closes the connection: handle_client's finally clause
\* (game_server.py:141-146)
Disconnect(c) ==
    /\ running
    /\ UNCHANGED <<handlers, callbacks, rate_limits, dispatched>>
    /\ pc[c] = "recv"
    /\ UNCHANGED <<running, now, next_round_id, ledger>>
    /\ IF Contended
       THEN /\ Parked(c, "close", <<>>, "lock:remove_connection", NoLocals)
            /\ UNCHANGED <<game_state, lock>>
       ELSE /\ RemoveConnection(c)
            /\ UNCHANGED waiters

\* LOGIN_REQ: process_message and handle_login_request
Login(c, username, password) ==
    /\ running
    /\ UNCHANGED <<handlers, callbacks, rate_limits, dispatched>>
    /\ pc[c] = "recv"
    /\ UNCHANGED <<lock, running, now, next_round_id, ledger>>
    /\ IF Contended
       THEN /\ Parked(c, "LOGIN_REQ", <<username, password>>, "lock:authenticate_user",
                      [NoLocals EXCEPT !.username = username, !.password = password])
            /\ UNCHANGED game_state
       ELSE LET auth == authenticate_user(game_state, username, password,
                                          fresh_token(game_state), now)
                bound == IF auth.user_id # None
                         THEN add_connection(auth.gs, c, auth.user_id)
                         ELSE auth.gs
            IN  /\ game_state' = bound
                /\ Handled(c)
                /\ Record(LoginResponse(c, <<username, password>>, bound, auth.user_id))
                /\ UNCHANGED waiters

\* ROOM_JOIN_REQ: process_message and handle_room_join_request
RoomJoin(c, room_id) ==
    /\ running
    /\ UNCHANGED <<handlers, callbacks, rate_limits, dispatched>>
    /\ pc[c] = "recv"
    /\ UNCHANGED <<lock, running, now, next_round_id, ledger>>
    /\ LET user_id == get_user_by_connection(game_state, c)
       IN  IF user_id = None
           THEN /\ SendError(c, "ROOM_JOIN_REQ", <<room_id>>, ERROR_AUTH_REQUIRED, "Authentication required")
                /\ UNCHANGED <<game_state, pc, locals, waiters>>
           ELSE IF Contended
           THEN /\ Parked(c, "ROOM_JOIN_REQ", <<room_id>>, "lock:join_room",
                          [NoLocals EXCEPT !.user_id = user_id, !.room_id = room_id])
                /\ UNCHANGED game_state
           ELSE LET joined == join_room(game_state, user_id, room_id)
                IN  /\ game_state' = joined.gs
                    /\ Handled(c)
                    /\ Record(RoomJoinResponse(c, joined.gs, room_id, joined.ok))
                    /\ UNCHANGED waiters

\* SNAPSHOT_REQ: process_message and handle_snapshot_request
Snapshot(c) ==
    /\ running
    /\ UNCHANGED <<handlers, callbacks, rate_limits, dispatched>>
    /\ pc[c] = "recv"
    /\ UNCHANGED <<game_state, lock, waiters, pc, locals, running, now, next_round_id, ledger>>
    /\ LET user_id == get_user_by_connection(game_state, c)
       IN  IF user_id = None
           THEN SendError(c, "SNAPSHOT_REQ", <<>>, ERROR_AUTH_REQUIRED, "Authentication required")
           ELSE Record(Event(c, "SNAPSHOT_REQ", <<>>, "SNAPSHOT_RSP", TRUE, "",
                             get_user_snapshot(game_state, user_id)))

(***************************************************************************)
(* process_message on the bytes of a frame.  The frames carry SNAPSHOT_REQ *)
(* or a command the server does not know; handle_snapshot_request does not *)
(* read its payload.                                                       *)
(***************************************************************************)
\* struct.pack('<I', n) and struct.unpack('<I', bytes): a little-endian 32-bit integer
pack_u32(n) ==
    <<n % 256, (n \div 256) % 256, (n \div 65536) % 256, (n \div 16777216) % 256>>

unpack_u32_low_byte(bytes) ==
    bytes[1]

unpack_u32(bytes) ==
    bytes[1] + 256 * bytes[2] + 65536 * bytes[3] + 16777216 * bytes[4]

\* struct.unpack('<II', raw_data[:8])
unpack_header(raw_data) ==
    [command_id |-> unpack_u32(SubSeq(raw_data, 1, 4)),
     length |-> unpack_u32(SubSeq(raw_data, 5, 8))]

\* the history after a frame of user_id reached its handler at time t
Observed(history, user_id, t) ==
    [history EXCEPT ![user_id] = Append(SelectSeq(@, LAMBDA x : t - x < RATE_WINDOW), t)]

ProcessMessage(c, raw_data) ==
    /\ running
    /\ pc[c] = "recv"
    /\ UNCHANGED <<game_state, lock, waiters, pc, locals, running, now, next_round_id, ledger,
                   handlers, callbacks>>
    /\ IF Len(raw_data) < HEADER_SIZE
       THEN /\ SendError(c, "frame", raw_data, ERROR_INVALID_FORMAT, "Invalid packet size")
            /\ UNCHANGED <<rate_limits, dispatched>>
       ELSE IF Len(raw_data) # HEADER_SIZE + unpack_header(raw_data).length
       THEN /\ SendError(c, "frame", raw_data, ERROR_INVALID_FORMAT, "Packet length mismatch")
            /\ UNCHANGED <<rate_limits, dispatched>>
       ELSE LET command_id == unpack_header(raw_data).command_id
                user_id == get_user_by_connection(game_state, c)
                checked == check_rate_limit(rate_limits, user_id, now)
            IN  IF user_id # None /\ ~checked.ok
                THEN /\ SendError(c, "frame", raw_data, ERROR_RATE_LIMIT, "Rate limit exceeded")
                     /\ UNCHANGED <<rate_limits, dispatched>>
                ELSE /\ rate_limits' = IF user_id # None THEN checked.rate_limits
                                       ELSE rate_limits
                     /\ IF command_id # C2S_SNAPSHOT_REQ
                        THEN /\ SendError(c, "frame", raw_data, ERROR_INVALID_FORMAT, "Unknown command")
                             /\ UNCHANGED dispatched
                        ELSE IF user_id = None
                        THEN /\ SendError(c, "frame", raw_data, ERROR_AUTH_REQUIRED, "Authentication required")
                             /\ UNCHANGED dispatched
                        ELSE /\ Record(Event(c, "frame", raw_data, "SNAPSHOT_RSP", TRUE, "",
                                             get_user_snapshot(game_state, user_id)))
                             /\ dispatched' = Observed(dispatched, user_id, now)

\* the ledger after a call of place_bet
Staked(placed, user_id, amount) ==
    IF placed.ok THEN [ledger EXCEPT !.staked[user_id] = @ + amount] ELSE ledger

\* BET_PLACEMENT_REQ: process_message and handle_bet_placement_request
BetPlacement(c, dice_face, amount, round_id) ==
    /\ running
    /\ UNCHANGED <<handlers, callbacks, rate_limits, dispatched>>
    /\ pc[c] = "recv"
    /\ UNCHANGED <<lock, running, now>>
    /\ LET user_id == get_user_by_connection(game_state, c)
       IN  IF user_id = None
           THEN /\ SendError(c, "BET_PLACEMENT_REQ", <<dice_face, amount, round_id>>, ERROR_AUTH_REQUIRED, "Authentication required")
                /\ UNCHANGED <<game_state, pc, locals, waiters, next_round_id, ledger>>
           ELSE LET placed == place_bet(game_state, user_id, dice_face, amount, round_id,
                                        ~Contended, next_round_id, now)
                    created == Len(placed.gs.active_rounds) > Len(game_state.active_rounds)
                IN  /\ created => next_round_id <= MaxRounds
                    /\ game_state' = placed.gs
                    /\ next_round_id' = IF created THEN next_round_id + 1 ELSE next_round_id
                    /\ ledger' = Staked(placed, user_id, amount)
                    /\ IF placed.parked
                       THEN Parked(c, "BET_PLACEMENT_REQ", <<dice_face, amount, round_id>>,
                                   "lock:create_game_round",
                                   [NoLocals EXCEPT !.user_id = user_id,
                                                    !.dice_face = dice_face,
                                                    !.amount = amount])
                       ELSE /\ Handled(c)
                            /\ Record(BetPlacementResponse(c, <<dice_face, amount, round_id>>,
                                                             placed, user_id, round_id))
                            /\ UNCHANGED waiters

\* BET_FINISHED_REQ: process_message and handle_bet_finished_request
BetFinished(c, round_id) ==
    /\ running
    /\ pc[c] = "recv"
    /\ UNCHANGED <<handlers, callbacks, rate_limits, dispatched, lock, waiters, pc, locals, running, now, next_round_id, ledger>>
    /\ LET user_id == get_user_by_connection(game_state, c)
       IN  IF user_id = None
           THEN /\ SendError(c, "BET_FINISHED_REQ", <<round_id>>, ERROR_AUTH_REQUIRED, "Authentication required")
                /\ UNCHANGED game_state
           ELSE LET finished == finish_betting(game_state, user_id, round_id)
                IN  /\ game_state' = finished.gs
                    /\ Record(Event(c, "BET_FINISHED_REQ", <<round_id>>, "BET_FINISHED_RSP",
                                    finished.ok, finished.message, [round_id |-> round_id]))

\* the ledger after a call of calculate_results
Settled(reckoned, user_id, round_id) ==
    IF reckoned.settled
    THEN [ledger EXCEPT !.settled = Put(@, round_id,
             [user_id |-> user_id, total_winnings |-> reckoned.results.total_winnings,
              times |-> IF round_id \in DOMAIN @ THEN @[round_id].times + 1 ELSE 1])]
    ELSE ledger

\* RECKON_RESULT_REQ: process_message and handle_reckon_result_request
ReckonResult(c, round_id, dice_result) ==
    /\ running
    /\ UNCHANGED <<handlers, callbacks, rate_limits, dispatched>>
    /\ pc[c] = "recv"
    /\ UNCHANGED <<lock, running, now, next_round_id>>
    /\ LET user_id == get_user_by_connection(game_state, c)
       IN  IF user_id = None
           THEN /\ SendError(c, "RECKON_RESULT_REQ", <<round_id>>, ERROR_AUTH_REQUIRED, "Authentication required")
                /\ UNCHANGED <<game_state, pc, locals, waiters, ledger>>
           ELSE LET reckoned == calculate_results(game_state, user_id, round_id,
                                                  dice_result, ~Contended)
                IN  /\ game_state' = reckoned.gs
                    /\ ledger' = Settled(reckoned, user_id, round_id)
                    /\ IF reckoned.parked
                       THEN Parked(c, "RECKON_RESULT_REQ", <<round_id>>, "lock:finish_game_round",
                                   [NoLocals EXCEPT !.user_id = user_id,
                                                    !.round_id = round_id,
                                                    !.results = reckoned.results])
                       ELSE /\ Handled(c)
                            /\ UNCHANGED waiters
                            /\ IF reckoned.ok
                               THEN Record(ReckonResultResponse(c, round_id, reckoned.message,
                                                                reckoned.results))
                               ELSE SendError(c, "RECKON_RESULT_REQ", <<round_id>>, ERROR_INVALID_BET,
                                              reckoned.message)

(***************************************************************************)
(* The sweeper, the clock, shutdown.                                       *)
(***************************************************************************)
\* one cycle of periodic_cleanup up to its next suspension (game_server.py:425-450)
Sweep ==
    /\ pc[Sweeper] = "sleep"
    /\ UNCHANGED <<running, now, next_round_id, ledger, dispatched, handlers, callbacks>>
    /\ IF Contended
       THEN /\ Parked(Sweeper, "sweep", <<>>, "lock:cleanup_expired_sessions", NoLocals)
            /\ UNCHANGED <<game_state, lock, rate_limits>>
       ELSE LET swept == cleanup_expired_sessions(game_state, now)
            IN  /\ game_state' = IF swept.suspended THEN swept.gs
                                 ELSE cleanup_stale_rounds(swept.gs, now)
                /\ rate_limits' = IF swept.suspended THEN rate_limits
                                  ELSE purge_rate_limits(rate_limits, now)
                /\ lock' = IF swept.suspended THEN {Sweeper} ELSE {}
                /\ pc' = [pc EXCEPT ![Sweeper] = IF swept.suspended
                                                 THEN "lock:leave_room" ELSE "sleep"]
                /\ locals' = [locals EXCEPT ![Sweeper] = IF swept.suspended
                                 THEN [NoLocals EXCEPT !.cmd = "sweep",
                                                       !.user_id = swept.user_id]
                                 ELSE NoLocals]
                /\ Record(Event(Sweeper, "sweep", <<>>, "none", ~swept.suspended, "", <<>>))
                /\ UNCHANGED waiters

\* time passes
Tick(d) ==
    /\ running
    /\ UNCHANGED <<handlers, callbacks, rate_limits, dispatched>>
    /\ now + d <= MaxTime
    /\ now' = now + d
    /\ Record(Event(Sweeper, "tick", <<>>, "none", TRUE, "", <<>>))
    /\ UNCHANGED <<game_state, lock, waiters, pc, locals, running, next_round_id, ledger>>

\* shutdown (game_server.py:112-124): the sweeper is cancelled where it is
\* suspended.  Cancelled inside cleanup_expired_sessions it leaves the
\* `async with`, which releases the mutex and wakes the first parked task.
\* The run is followed until the requests in flight have completed: no frame
\* is read after shutdown.
Shutdown ==
    /\ running
    /\ UNCHANGED <<handlers, callbacks, rate_limits, dispatched>>
    /\ running' = FALSE
    /\ pc' = [pc EXCEPT ![Sweeper] = "cancelled"]
    /\ lock' = lock \ {Sweeper}
    /\ waiters' = SelectSeq(waiters, LAMBDA t : t # Sweeper)
    /\ Record(Event(Sweeper, "shutdown", <<>>, "none", TRUE, "", <<>>))
    /\ locals' = [locals EXCEPT ![Sweeper] = NoLocals]
    /\ UNCHANGED <<game_state, now, next_round_id, ledger>>

(***************************************************************************)
(* A parked task gets the mutex: asyncio.Lock wakes its waiters in FIFO    *)
(* order, and the woken task runs the rest of its handler to the next      *)
(* suspension.                                                             *)
(***************************************************************************)
\* the rest of handle_client's add_connection(websocket, 0), or of the one of
\* handle_login_request
ResumeAddConnection(c) ==
    /\ game_state' = add_connection(game_state, c, locals[c].user_id)
    /\ lock' = {}
    /\ waiters' = Tail(waiters)
    /\ Handled(c)
    /\ Record(IF locals[c].cmd = "connect"
              THEN Event(c, "connect", <<>>, "none", TRUE, "", <<>>)
              ELSE Event(c, "LOGIN_REQ", <<locals[c].username, locals[c].password>>,
                         "LOGIN_RSP", TRUE, "Login successful", locals[c].response))
    /\ UNCHANGED <<next_round_id, ledger>>

ResumeRemoveConnection(c) ==
    /\ RemoveConnection(c)
    /\ waiters' = Tail(waiters)
    /\ UNCHANGED <<next_round_id, ledger>>

\* handle_login_request from authenticate_user on; with another task queued
\* for the mutex, its add_connection queues behind it
ResumeLogin(c) ==
    LET auth == authenticate_user(game_state, locals[c].username, locals[c].password,
                                  fresh_token(game_state), now)
    IN  /\ lock' = {}
        /\ UNCHANGED <<next_round_id, ledger>>
        /\ IF auth.user_id # None /\ Tail(waiters) # <<>>
           THEN /\ game_state' = auth.gs
                /\ pc' = [pc EXCEPT ![c] = "lock:add_connection"]
                /\ waiters' = Append(Tail(waiters), c)
                /\ locals' = [locals EXCEPT ![c].user_id = auth.user_id,
                                            ![c].response = LoginFields(auth.gs, auth.user_id)]
                /\ Record(Event(c, "LOGIN_REQ", <<locals[c].username, locals[c].password>>,
                                "none", FALSE, "", <<>>))
           ELSE LET bound == IF auth.user_id # None
                             THEN add_connection(auth.gs, c, auth.user_id)
                             ELSE auth.gs
                IN  /\ game_state' = bound
                    /\ waiters' = Tail(waiters)
                    /\ Handled(c)
                    /\ Record(LoginResponse(c, <<locals[c].username, locals[c].password>>,
                                            bound, auth.user_id))

ResumeRoomJoin(c) ==
    LET joined == join_room(game_state, locals[c].user_id, locals[c].room_id)
    IN  /\ game_state' = joined.gs
        /\ lock' = {}
        /\ waiters' = Tail(waiters)
        /\ Handled(c)
        /\ Record(RoomJoinResponse(c, joined.gs, locals[c].room_id, joined.ok))
        /\ UNCHANGED <<next_round_id, ledger>>

\* place_bet from the return of create_game_round on (game_engine.py:175, 42-61):
\* the balance was checked before the task parked
resume_place_bet(gs, user_id, dice_face, amount, fresh, t) ==
    LET made == create_game_round(gs, user_id, fresh, t)
    IN  IF made.round_id = None
        THEN PlaceBetFailure(made.gs, "Failed to create game round")
        ELSE place_bet_in_round(made.gs, user_id, dice_face, amount, made.round_id)

ResumeBetPlacement(c) ==
    LET user_id == locals[c].user_id
        placed == resume_place_bet(game_state, user_id, locals[c].dice_face,
                                   locals[c].amount, next_round_id, now)
        created == Len(placed.gs.active_rounds) > Len(game_state.active_rounds)
    IN  /\ created => next_round_id <= MaxRounds
        /\ game_state' = placed.gs
        /\ next_round_id' = IF created THEN next_round_id + 1 ELSE next_round_id
        /\ ledger' = Staked(placed, user_id, locals[c].amount)
        /\ lock' = {}
        /\ waiters' = Tail(waiters)
        /\ Handled(c)
        /\ Record(BetPlacementResponse(c, <<locals[c].dice_face, locals[c].amount, None>>,
                                       placed, user_id, None))

\* calculate_results from finish_game_round on (game_engine.py:154-158)
ResumeReckonResult(c) ==
    /\ game_state' = finish_game_round(game_state, locals[c].round_id)
    /\ lock' = {}
    /\ waiters' = Tail(waiters)
    /\ Handled(c)
    /\ Record(ReckonResultResponse(c, locals[c].round_id, "Results calculated successfully",
                                   locals[c].results))
    /\ UNCHANGED <<next_round_id, ledger>>

Resume(c) ==
    /\ lock = {}
    /\ UNCHANGED <<handlers, callbacks, rate_limits, dispatched>>
    /\ waiters # <<>>
    /\ c = Head(waiters)
    /\ UNCHANGED <<running, now>>
    /\ CASE pc[c] = "lock:add_connection" -> ResumeAddConnection(c)
         [] pc[c] = "lock:remove_connection" -> ResumeRemoveConnection(c)
         [] pc[c] = "lock:authenticate_user" -> ResumeLogin(c)
         [] pc[c] = "lock:join_room" -> ResumeRoomJoin(c)
         [] pc[c] = "lock:create_game_round" -> ResumeBetPlacement(c)
         [] pc[c] = "lock:finish_game_round" -> ResumeReckonResult(c)

(***************************************************************************)
(* Specifications.                                                         *)
(***************************************************************************)
\* what the clock jumps by in the game: past the session timeout
Expiry == SESSION_TIMEOUT + 1

\* The game: every request of the protocol with well-formed bets, client c
\* playing as user c in room c; events are not recorded.
Init ==
    /\ Started
    /\ last = Unrecorded

Next ==
    \/ \E c \in Conns : Connect(c)
    \/ \E c \in Conns : Disconnect(c)
    \/ \E c \in Conns : Login(c, c, c)
    \/ \E c \in Conns : RoomJoin(c, c)
    \/ \E c \in Conns : Snapshot(c)
    \/ \E c \in Conns, f \in ValidFaces, a \in ValidAmounts, r \in RoundInputs :
          BetPlacement(c, f, a, r)
    \/ \E c \in Conns, r \in RoundInputs : BetFinished(c, r)
    \/ \E c \in Conns, r \in RoundInputs, d \in DiceOutcomes : ReckonResult(c, r, d)
    \/ Sweep
    \/ Tick(Expiry)

Spec == Init /\ [][Next]_vars

\* Sessions that expire and are taken over from another connection, the
\* sweeper, and shutdown: logins as any user, bets without round_id.
NextShutdown ==
    \/ \E c \in Conns : Connect(c)
    \/ \E c \in Conns, l \in GoodLogins : Login(c, l[1], l[2])
    \/ \E c \in Conns : RoomJoin(c, c)
    \/ \E c \in Conns, f \in ValidFaces, a \in ValidAmounts : BetPlacement(c, f, a, None)
    \/ \E c \in Conns, r \in 1..MaxRounds, d \in DiceOutcomes : ReckonResult(c, r, d)
    \/ Sweep
    \/ Tick(Expiry)
    \/ Shutdown
    \/ \E c \in Conns : Resume(c)

SpecShutdown == Init /\ [][NextShutdown]_vars

\* Sessions and rooms: logins and room joins with every input, disconnects,
\* the sweeper and the clock; events are recorded.
InitSession ==
    /\ Started
    /\ last = Event(Sweeper, "start", <<>>, "none", TRUE, "", <<>>)

NextSession ==
    \/ \E c \in Conns : Connect(c)
    \/ \E c \in Conns : Disconnect(c)
    \/ \E c \in Conns, l \in LoginInputs : Login(c, l[1], l[2])
    \/ \E c \in Conns, r \in RoomInputs : RoomJoin(c, r)
    \/ Sweep
    \/ \E d \in TickSteps : Tick(d)

SpecSession == InitSession /\ [][NextSession]_vars

\* what the clock advances by at the gate: two steps reach the session
\* timeout, or pass it by one second
GateTicks == {SESSION_TIMEOUT \div 2, SESSION_TIMEOUT \div 2 + 1}

\* The gate of the five commands that need a login: every command on
\* connections that are logged in as user 1, not logged in, or whose session
\* ran out; events are recorded.
NextGate ==
    \/ \E c \in Conns : Connect(c)
    \/ \E c \in Conns, password \in {0, 1} : Login(c, 1, password)
    \/ \E c \in Conns : RoomJoin(c, 1)
    \/ \E c \in Conns : Snapshot(c)
    \/ \E c \in Conns : BetPlacement(c, 3, 500, None)
    \/ \E c \in Conns : BetFinished(c, 1)
    \/ \E c \in Conns : ReckonResult(c, 1, 4)
    \/ Sweep
    \/ \E d \in GateTicks : Tick(d)

SpecGate == InitSession /\ [][NextGate]_vars

\* a frame as the client packs it: header, then payload_size bytes of payload
Frame(command_id, length, payload_size) ==
    pack_u32(command_id) \o pack_u32(length) \o [k \in 1..payload_size |-> 0]

\* well-formed frames (a snapshot request with and without payload, an
\* unknown command whose low byte is the one of SNAPSHOT_REQ), frames whose
\* length field is wrong in the low and in the second byte, and frames cut short
FrameInputs ==
    {Frame(C2S_SNAPSHOT_REQ, 0, 0), Frame(C2S_SNAPSHOT_REQ, 1, 1),
     Frame(C2S_SNAPSHOT_REQ + 256, 0, 0),
     Frame(C2S_SNAPSHOT_REQ, 1, 0), Frame(C2S_SNAPSHOT_REQ, 0, 1),
     Frame(C2S_SNAPSHOT_REQ, 256, 0),
     <<>>, SubSeq(Frame(C2S_SNAPSHOT_REQ, 0, 0), 1, HEADER_SIZE - 1)}

\* the clock in steps of half a rate window, for two windows and a half
FrameHorizon == 150
FrameTicks == {RATE_WINDOW \div 2}

\* The frames of the clients, byte by byte: the framing, the rate limiter and
\* the dispatch; user 1 may log in on either connection, and a connection
\* that is logged in sends no further login.
NextFrames ==
    \/ \E c \in Conns : Connect(c)
    \/ \E c \in Conns : get_user_by_connection(game_state, c) = None /\ Login(c, 1, 1)
    \/ \E c \in Conns, raw_data \in FrameInputs : ProcessMessage(c, raw_data)
    \/ \E d \in FrameTicks : now + d <= FrameHorizon /\ Tick(d)

SpecFrames == InitSession /\ [][NextFrames]_vars

\* A session that stays in use: user 1 logs in, keeps asking for snapshots
\* while the clock moves towards the session timeout, and logs in again; the
\* sweeper runs in between.
NextIdle ==
    \/ \E c \in Conns : Connect(c)
    \/ \E c \in Conns : Login(c, 1, 1)
    \/ \E c \in Conns : ProcessMessage(c, Frame(C2S_SNAPSHOT_REQ, 0, 0))
    \/ Sweep
    \/ \E d \in GateTicks : Tick(d)

SpecIdle == InitSession /\ [][NextIdle]_vars

\* The sweeper at work: client c plays as user c in room c and leaves rounds
\* unsettled while the clock passes the stale-round timeout and the session
\* timeout.  periodic_cleanup sleeps 300 seconds between two cycles and then
\* runs again: a sweep that can start does start.
NextSweeper ==
    \/ \E c \in Conns : Connect(c)
    \/ \E c \in Conns : Login(c, c, c)
    \/ \E c \in Conns : RoomJoin(c, c)
    \/ \E c \in Conns : BetPlacement(c, 3, 500, None)
    \/ Sweep
    \/ \E d \in {STALE_ROUND_TIMEOUT + 1, Expiry} : Tick(d)

SpecSweeper == Init /\ [][NextSweeper]_vars /\ WF_vars(Sweep)

(***************************************************************************)
(* tornado_game_server.py: GameWebSocketHandler.  on_message and on_close   *)
(* run when the event arrives; the handlers of the requests and the cleanup *)
(* of a closed connection are scheduled with IOLoop.add_callback and run    *)
(* later, in the order in which they were scheduled.  This server has no    *)
(* sweeper and no connection maps, and nothing in it holds the store mutex  *)
(* across a suspension, so that a callback runs to its end once started.    *)
(***************************************************************************)
\* callbacks that may wait on the IOLoop at a time, for a frame to be taken
MaxCallbacks == 2

TORNADO_ERROR_RATE_LIMIT == 1009

\* the requests of the clients: logins with the right password, a room join
TornadoFrames ==
    {<<"handle_login", <<u, u>>>> : u \in Users} \cup {<<"handle_room_join", <<1>>>>}

Scheduled(c, callback, payload) ==
    [handler |-> c, callback |-> callback, payload |-> payload]

\* the callback at the head of the IOLoop's queue is `callback` of handler c
Due(c, callback) ==
    /\ callbacks # <<>>
    /\ Head(callbacks).handler = c
    /\ Head(callbacks).callback = callback

\* GameWebSocketHandler.open
TornadoOpen(c) ==
    /\ handlers[c].ws = "new"
    /\ handlers' = [handlers EXCEPT ![c].ws = "open"]
    /\ last' = Event(c, "open", <<>>, "none", TRUE, "", <<>>)
    /\ UNCHANGED <<game_state, lock, waiters, pc, locals, running, now, next_round_id,
                   ledger, rate_limits, dispatched, callbacks>>

\* on_message and process_message for a well-formed frame; spaced tells
\* whether the user's previous frame is 0.05 s old or older (check_rate_limit,
\* which lets every frame of user 1 pass)
OnMessage(c, callback, payload, spaced) ==
    /\ handlers[c].ws = "open"
    /\ Len(callbacks) < MaxCallbacks
    /\ IF handlers[c].authenticated /\ handlers[c].user_id # 1 /\ ~spaced
       THEN /\ last' = Event(c, callback, payload, "ERROR_RSP", FALSE, "Rate limit exceeded",
                             [error_code |-> TORNADO_ERROR_RATE_LIMIT])
            /\ UNCHANGED callbacks
       ELSE /\ callbacks' = Append(callbacks, Scheduled(c, callback, payload))
            /\ last' = Event(c, callback, payload, "none", TRUE, "", <<>>)
    /\ UNCHANGED <<game_state, lock, waiters, pc, locals, running, now, next_round_id,
                   ledger, rate_limits, dispatched, handlers>>

\* on_close
OnClose(c) ==
    /\ handlers[c].ws = "open"
    /\ handlers' = [handlers EXCEPT ![c].ws = "closed"]
    /\ callbacks' = IF handlers[c].authenticated /\ handlers[c].user_id # None
                    THEN Append(callbacks, Scheduled(c, "_cleanup_user_session", <<>>))
                    ELSE callbacks
    /\ last' = Event(c, "on_close", <<>>, "none", TRUE, "", <<>>)
    /\ UNCHANGED <<game_state, lock, waiters, pc, locals, running, now, next_round_id,
                   ledger, rate_limits, dispatched>>

\* handle_login, run by the IOLoop
HandleLogin(c) ==
    /\ Due(c, "handle_login")
    /\ LET payload == Head(callbacks).payload
           auth == authenticate_user(game_state, payload[1], payload[2],
                                     fresh_token(game_state), now)
       IN  /\ game_state' = auth.gs
           /\ handlers' = IF auth.user_id # None
                          THEN [handlers EXCEPT ![c].authenticated = TRUE,
                                                ![c].user_id = auth.user_id,
                                                ![c].logged_in = @ \cup {auth.user_id}]
                          ELSE handlers
           /\ last' = LoginResponse(c, payload, auth.gs, auth.user_id)
    /\ callbacks' = Tail(callbacks)
    /\ UNCHANGED <<lock, waiters, pc, locals, running, now, next_round_id,
                   ledger, rate_limits, dispatched>>

\* handle_room_join, run by the IOLoop
HandleRoomJoin(c) ==
    /\ Due(c, "handle_room_join")
    /\ LET room_id == Head(callbacks).payload[1]
           joined == join_room(game_state, handlers[c].user_id, room_id)
       IN  IF ~handlers[c].authenticated
           THEN /\ SendError(c, "ROOM_JOIN_REQ", <<room_id>>, ERROR_AUTH_REQUIRED,
                             "Authentication required")
                /\ UNCHANGED game_state
           ELSE /\ game_state' = joined.gs
                /\ last' = RoomJoinResponse(c, joined.gs, room_id, joined.ok)
    /\ callbacks' = Tail(callbacks)
    /\ UNCHANGED <<lock, waiters, pc, locals, running, now, next_round_id,
                   ledger, rate_limits, dispatched, handlers>>

\* _cleanup_user_session, run by the IOLoop: for the user the handler holds
\* when the callback runs
CleanupUserSession(c) ==
    /\ Due(c, "_cleanup_user_session")
    /\ LET user_id == handlers[c].user_id
           left == leave_room(game_state, user_id)
       IN  game_state' = IF user_id \in DOMAIN left.users
                         THEN [left EXCEPT !.users[user_id].session_token = None]
                         ELSE left
    /\ callbacks' = Tail(callbacks)
    /\ last' = Event(c, "_cleanup_user_session", <<>>, "none", TRUE, "", <<>>)
    /\ UNCHANGED <<lock, waiters, pc, locals, running, now, next_round_id,
                   ledger, rate_limits, dispatched, handlers>>

\* The Tornado server: connections that open, send requests and close, and
\* the IOLoop that runs what was scheduled.
NextTornado ==
    \/ \E c \in Conns : TornadoOpen(c)
    \/ \E c \in Conns, frame \in TornadoFrames, spaced \in BOOLEAN :
          OnMessage(c, frame[1], frame[2], spaced)
    \/ \E c \in Conns : OnClose(c)
    \/ \E c \in Conns : HandleLogin(c)
    \/ \E c \in Conns : HandleRoomJoin(c)
    \/ \E c \in Conns : CleanupUserSession(c)

SpecTornado == InitSession /\ [][NextTornado]_vars

(***************************************************************************)
(* The engine called directly, one call after the other, as the unit tests *)
(* call it (tests/test_game_system.py): no connection, no sweeper, the     *)
(* mutex always free.  user_id 0 is an id the store does not hold.         *)
(***************************************************************************)
\* user ids passed to the engine
EngineUsers == {None} \cup Users
\* amounts passed to place_bet: below, at and above the two limits
EngineAmounts == {0, 1, 1000, 1001}

\* the last call: the engine method, its arguments and what it returned
Call(method, args, ok, message, data) ==
    Event(Sweeper, method, args, "return", ok, message, data)

\* await game_state.join_room(user_id, room_id)
EngineJoinRoom(user_id, room_id) ==
    LET joined == join_room(game_state, user_id, room_id)
    IN  /\ game_state' = joined.gs
        /\ last' = Call("join_room", <<user_id, room_id>>, joined.ok, "", <<>>)
        /\ UNCHANGED <<handlers, callbacks, rate_limits, dispatched, lock, waiters, pc, locals, running, now, next_round_id, ledger>>

\* await game_state.leave_room(user_id)
EngineLeaveRoom(user_id) ==
    /\ game_state' = leave_room(game_state, user_id)
    /\ last' = Call("leave_room", <<user_id>>, TRUE, "", <<>>)
    /\ UNCHANGED <<handlers, callbacks, rate_limits, dispatched, lock, waiters, pc, locals, running, now, next_round_id, ledger>>

\* await game_engine.place_bet(user_id, dice_face, amount, round_id)
EnginePlaceBet(user_id, dice_face, amount, round_id) ==
    LET placed == place_bet(game_state, user_id, dice_face, amount, round_id,
                            TRUE, next_round_id, now)
        created == Len(placed.gs.active_rounds) > Len(game_state.active_rounds)
    IN  /\ created => next_round_id <= MaxRounds
        /\ game_state' = placed.gs
        /\ next_round_id' = IF created THEN next_round_id + 1 ELSE next_round_id
        /\ ledger' = Staked(placed, user_id, amount)
        /\ last' = Call("place_bet", <<user_id, dice_face, amount, round_id>>, placed.ok, placed.message,
                        [bet_id |-> placed.bet_id, round_id |-> placed.round_id])
        /\ UNCHANGED <<handlers, callbacks, rate_limits, dispatched, lock, waiters, pc, locals, running, now>>

\* await game_engine.finish_betting(user_id, round_id)
EngineFinishBetting(user_id, round_id) ==
    LET finished == finish_betting(game_state, user_id, round_id)
    IN  /\ game_state' = finished.gs
        /\ last' = Call("finish_betting", <<user_id, round_id>>, finished.ok, finished.message, <<>>)
        /\ UNCHANGED <<handlers, callbacks, rate_limits, dispatched, lock, waiters, pc, locals, running, now, next_round_id, ledger>>

\* await game_engine.calculate_results(user_id, round_id), the dice showing dice_result
EngineCalculateResults(user_id, round_id, dice_result) ==
    LET reckoned == calculate_results(game_state, user_id, round_id, dice_result, TRUE)
    IN  /\ game_state' = reckoned.gs
        /\ ledger' = Settled(reckoned, user_id, round_id)
        /\ last' = Call("calculate_results", <<user_id, round_id, dice_result>>, reckoned.ok, reckoned.message, reckoned.results)
        /\ UNCHANGED <<handlers, callbacks, rate_limits, dispatched, lock, waiters, pc, locals, running, now, next_round_id>>

\* await game_state.create_game_round(user_id)
EngineCreateRound(user_id) ==
    LET made == create_game_round(game_state, user_id, next_round_id, now)
        created == Len(made.gs.active_rounds) > Len(game_state.active_rounds)
    IN  /\ created => next_round_id <= MaxRounds
        /\ game_state' = made.gs
        /\ next_round_id' = IF created THEN next_round_id + 1 ELSE next_round_id
        /\ last' = Call("create_game_round", <<user_id>>, made.round_id # None, "",
                        [round_id |-> made.round_id])
        /\ UNCHANGED <<handlers, callbacks, rate_limits, dispatched, lock, waiters, pc, locals, running, now, ledger>>

\* await game_engine.cleanup_stale_rounds()
EngineCleanupStaleRounds ==
    /\ game_state' = cleanup_stale_rounds(game_state, now)
    /\ last' = Call("cleanup_stale_rounds", <<>>, TRUE, "", <<>>)
    /\ UNCHANGED <<handlers, callbacks, rate_limits, dispatched, lock, waiters, pc, locals, running, now, next_round_id, ledger>>

InitEngine ==
    /\ Started
    /\ last = Call("start", <<>>, TRUE, "", <<>>)

\* the game through the engine: bets that pass validation, at both limits
NextEngine ==
    \/ \E u \in Users : EngineJoinRoom(u, u)
    \/ \E u \in EngineUsers : EngineCreateRound(u)
    \/ \E u \in EngineUsers, f \in ValidFaces, a \in {MIN_BET, MAX_BET}, r \in RoundInputs :
          EnginePlaceBet(u, f, a, r)
    \/ \E u \in EngineUsers, r \in 1..MaxRounds : EngineFinishBetting(u, r)
    \/ \E u \in EngineUsers, r \in 1..MaxRounds, d \in DiceOutcomes :
          EngineCalculateResults(u, r, d)

SpecEngine == InitEngine /\ [][NextEngine]_vars

\* place_bet with every input, on rounds that fill and finish but are not settled
NextPlaceBet ==
    \/ \E u \in Users : EngineJoinRoom(u, u)
    \/ \E u \in EngineUsers, f \in FaceInputs, a \in EngineAmounts, r \in RoundInputs :
          EnginePlaceBet(u, f, a, r)
    \/ \E u \in EngineUsers, r \in 1..MaxRounds : EngineFinishBetting(u, r)

SpecPlaceBet == InitEngine /\ [][NextPlaceBet]_vars

\* players who leave their room with a round open and go on betting
NextRoomless ==
    \/ \E u \in Users : EngineJoinRoom(u, u)
    \/ \E u \in Users : EngineLeaveRoom(u)
    \/ \E u \in Users, a \in {MIN_BET, MAX_BET} : EnginePlaceBet(u, 3, a, None)

SpecRoomless == InitEngine /\ [][NextRoomless]_vars

\* what the clock advances by around the stale-round timeout
StaleTicks == {STALE_ROUND_TIMEOUT, STALE_ROUND_TIMEOUT + 1}

\* rounds of different ages and phases, and the stale-round sweep
NextStale ==
    \/ \E u \in Users : EngineJoinRoom(u, u)
    \/ \E u \in Users : EnginePlaceBet(u, 3, MIN_BET, None)
    \/ \E u \in Users, r \in 1..MaxRounds : EngineFinishBetting(u, r)
    \/ EngineCleanupStaleRounds
    \/ \E d \in StaleTicks : Tick(d)

SpecStale == InitEngine /\ [][NextStale]_vars

\* players who change rooms between their bets and the settlement
NextJackpot ==
    \/ \E u \in Users, r \in Rooms : EngineJoinRoom(u, r)
    \/ \E u \in Users : EnginePlaceBet(u, 3, MAX_BET, None)
    \/ \E u \in Users, r \in 1..MaxRounds, d \in DiceOutcomes :
          EngineCalculateResults(u, r, d)

SpecJackpot == InitEngine /\ [][NextJackpot]_vars

(***************************************************************************)
(* Properties.                                                             *)
(***************************************************************************)
Balance(u) == game_state.users[u].balance

\* C1: in every reachable state every user's balance is >= 0
C1_BalanceNonNegative ==
    \A u \in Users : Balance(u) >= 0

RECURSIVE SumWinnings(_, _)
SumWinnings(settled, rounds) ==
    IF rounds = {} THEN 0
    ELSE LET r == CHOOSE x \in rounds : TRUE
         IN  settled[r].total_winnings + SumWinnings(settled, rounds \ {r})

\* the total_winnings of the rounds settled for user u
SettledWinnings(u) ==
    SumWinnings(ledger.settled, {r \in DOMAIN ledger.settled : ledger.settled[r].user_id = u})

\* C2: in every reachable state each user's balance is the initial balance minus
\* the amounts of the bets the user placed successfully plus the total_winnings
\* of the user's settled rounds
C2_BalanceAccounting ==
    \A u \in Users : Balance(u) = DEFAULT_BALANCE - ledger.staked[u] + SettledWinnings(u)

BettingRounds(u) ==
    {i \in 1..Len(game_state.active_rounds) :
        /\ game_state.active_rounds[i].user_id = u
        /\ game_state.active_rounds[i].status = BETTING_PHASE}

\* C3: in every reachable state the active set holds at most one round in
\* status BETTING per user
C3_OneBettingRoundPerUser ==
    \A u \in Users : Cardinality(BettingRounds(u)) <= 1

\* a rollover has happened: a user has the round it finished, with its bets,
\* and the BETTING round created after it
C3_RolledOver ==
    \E u \in Users : \E i, j \in 1..Len(game_state.active_rounds) :
        /\ i < j
        /\ game_state.active_rounds[i].user_id = u
        /\ game_state.active_rounds[i].status = WAITING_RESULTS
        /\ Len(game_state.active_rounds[i].bets) >= ROLLOVER_AT
        /\ game_state.active_rounds[j].user_id = u
        /\ game_state.active_rounds[j].status = BETTING_PHASE
        /\ Len(game_state.active_rounds[j].bets) >= 1

RoomsOf(u) == {r \in Rooms : u \in game_state.rooms[r].current_players}

\* the user has a present, unexpired session token
Live(u) ==
    /\ game_state.users[u].session_token # None
    /\ ~is_session_expired(game_state.users[u], now)

\* C4: when the close of a connection bound to a user has been handled as far
\* as the handler runs, the handler has completed, the connection is out of the
\* maps, the user is in no room and has no session token
C4_CloseHandlingCompletes ==
    \A c \in Conns :
        (pc[c] \in {"closed", "lock:leave_room"} /\ locals[c].user_id # None) =>
            LET u == locals[c].user_id
            IN  /\ pc[c] = "closed"
                /\ c \notin DOMAIN game_state.connections
                /\ u \notin DOMAIN game_state.user_connections
                /\ game_state.users[u].current_room = None
                /\ RoomsOf(u) = {}
                /\ game_state.users[u].session_token = None

\* the connection on which u logged in has disconnected, and no other open
\* connection is bound to u
Disconnected(u) ==
    /\ \E c \in Conns : pc[c] = "lock:leave_room" /\ locals[c].user_id = u
    /\ \A c \in DOMAIN game_state.connections : game_state.connections[c] # u

\* C5: a login with the correct password for a user whose connection has
\* disconnected is answered with LOGIN_RSP success = true and a session token,
\* whatever the clock
C5_LoginAfterDisconnect ==
    [][\A c \in Conns, u \in Users :
          (Disconnected(u) /\ Login(c, u, u)) =>
              /\ last'.rsp = "LOGIN_RSP"
              /\ last'.ok
              /\ last'.data.session_token # None]_vars

\* C6: no task is suspended while it holds the store mutex (every state of the
\* model is one in which every task is suspended)
C6_NoSuspensionHoldingMutex ==
    lock = {}

\* balances, rounds and jackpot pools
Domain ==
    [balance |-> [u \in Users |-> game_state.users[u].balance],
     active_rounds |-> game_state.active_rounds,
     jackpot_pool |-> [r \in Rooms |-> game_state.rooms[r].jackpot_pool]]

\* C7: a step taken while another, suspended task holds the store mutex (so
\* that the task taking the step cannot hold it) changes no balance, no round
\* and no jackpot pool
C7_MutationsHoldMutex ==
    [][(lock # {} /\ lock' = lock) => Domain' = Domain]_vars

\* C8: a run of cleanup_expired_sessions that gets the mutex ends with the
\* sweeper back in its sleep, every user whose session was past the timeout
\* without token and in no room, and every live user with its token and room
C8_SweepClearsExpired ==
    [][(~Contended /\ Sweep) =>
          /\ pc'[Sweeper] = "sleep"
          /\ lock' = {}
          /\ \A u \in Users :
                IF Live(u)
                THEN /\ game_state'.users[u].session_token = game_state.users[u].session_token
                     /\ game_state'.users[u].current_room = game_state.users[u].current_room
                     /\ \A r \in Rooms : u \in game_state'.rooms[r].current_players
                                           <=> u \in game_state.rooms[r].current_players
                ELSE /\ game_state'.users[u].session_token = None
                     /\ game_state'.users[u].current_room = None
                     /\ \A r \in Rooms : u \notin game_state'.rooms[r].current_players]_vars

\* C9: a login with the correct credentials of a user that has a live session
\* is not accepted - what is answered is success = false - and leaves the
\* user's token, last_activity and the connection maps as they were; and a
\* step gives a user a new token only when the user had none or an expired one
C9_DuplicateSessionRule ==
    [][\A u \in Users :
          /\ \A c \in Conns :
                (Live(u) /\ Login(c, u, u)) =>
                    /\ last'.rsp = "LOGIN_RSP" => ~last'.ok
                    /\ last'.rsp \in {"LOGIN_RSP", "none"}
                    /\ game_state'.users[u] = game_state.users[u]
                    /\ game_state'.connections = game_state.connections
                    /\ game_state'.user_connections = game_state.user_connections
          /\ (/\ game_state'.users[u].session_token # game_state.users[u].session_token
              /\ game_state'.users[u].session_token # None) => ~Live(u)]_vars

\* a login with the correct credentials of a user with a live session has
\* been answered with success = false
C9_DuplicateRejected ==
    /\ last.cmd = "LOGIN_REQ"
    /\ last.rsp = "LOGIN_RSP"
    /\ ~last.ok
    /\ \E u \in Users : last.req = <<u, u>> /\ Live(u)

\* C10: in every reachable state no room has more than max_capacity players
\* and no user is among the players of two rooms
C10_RoomCapacityAndMembership ==
    /\ \A r \in Rooms :
          Cardinality(game_state.rooms[r].current_players) <= game_state.rooms[r].max_capacity
    /\ \A u \in Users : Cardinality(RoomsOf(u)) <= 1

\* a join of a full room has been refused
C10_FullRoomRefused ==
    /\ last.cmd = "ROOM_JOIN_REQ"
    /\ last.rsp = "ROOM_JOIN_RSP"
    /\ ~last.ok
    /\ \E r \in Rooms :
          /\ last.req = <<r>>
          /\ Cardinality(game_state.rooms[r].current_players) = game_state.rooms[r].max_capacity
          /\ game_state.connections[last.task] \notin game_state.rooms[r].current_players

\* who is in which room: every user's current_room and every room's players
Membership(gs) ==
    [current_room |-> [u \in Users |-> gs.users[u].current_room],
     current_players |-> [r \in Rooms |-> gs.rooms[r].current_players]]

\* C11: a ROOM_JOIN_REQ answered with success = false - join_room returned
\* false, the room missing or full - leaves every user's current_room and
\* every room's current_players as they were before the call
C11_FailedJoinAltersNothing ==
    [][\A c \in Conns, r \in RoomInputs :
          (RoomJoin(c, r) /\ last'.rsp = "ROOM_JOIN_RSP" /\ ~last'.ok) =>
              Membership(game_state') = Membership(game_state)]_vars

\* the message of the first check of place_bet that fails, "" when all pass;
\* no_round is the message for a call without round_id by a user for whom no
\* round can be fetched or created
FirstFailingCheck(gs, user_id, dice_face, amount, round_id, no_round) ==
    LET i == RoundIndex(gs, round_id)
    IN  IF user_id \notin DOMAIN gs.users THEN "User not found"
        ELSE IF ~(1 <= dice_face /\ dice_face <= 6) THEN "Invalid dice face (must be 1-6)"
        ELSE IF ~(MIN_BET <= amount /\ amount <= MAX_BET) THEN "Invalid bet amount (1-1000)"
        ELSE IF ~(gs.users[user_id].balance >= amount) THEN "Insufficient balance"
        ELSE IF round_id = None
        THEN (IF gs.users[user_id].current_room = None THEN no_round ELSE "")
        ELSE IF i = 0 THEN "Invalid round"
        ELSE IF gs.active_rounds[i].user_id # user_id THEN "Invalid round"
        ELSE IF gs.active_rounds[i].status # BETTING_PHASE THEN "Betting phase has ended"
        ELSE IF ~(Len(gs.active_rounds[i].bets) < MAX_BETS_PER_ROUND)
        THEN "Maximum bets per round exceeded"
        ELSE ""

\* a step is the call method(args) of the engine
Called(method) == last'.cmd = method /\ last' # last

\* every call of place_bet answers as the first failing check says
AnswersFirstFailingCheck(no_round) ==
    Called("place_bet") =>
        LET u == last'.req[1]
            f == last'.req[2]
            a == last'.req[3]
            r == last'.req[4]
            m == FirstFailingCheck(game_state, u, f, a, r, no_round)
        IN  /\ EnginePlaceBet(u, f, a, r)
            /\ last'.ok <=> m = ""
            /\ ~last'.ok => last'.message = m
            /\ a \in {MIN_BET, MAX_BET} => last'.message # "Invalid bet amount (1-1000)"

\* C12 (amended): place_bet evaluates its checks in the order user, dice face,
\* amount, balance, round, status, bet count, and fails with the message of
\* the first failing check; amounts 1 and 1000 pass the amount check; a call
\* without round_id by a user in no room fails with "Failed to create game round"
C12_CheckOrder ==
    [][AnswersFirstFailingCheck("Failed to create game round")]_vars

\* C12 as stated: the same, every failure of the round check - the call
\* without round_id for which no round can be created included - answering
\* "Invalid round"
C12_CheckOrderAsStated ==
    [][AnswersFirstFailingCheck("Invalid round")]_vars

\* a bet has been refused by the last check, the round full
C12_RefusedAtLastCheck ==
    /\ last.cmd = "place_bet"
    /\ ~last.ok
    /\ last.message = "Maximum bets per round exceeded"

\* the bets of a round of the active set, <<>> for a round that is not in it
BetsOf(gs, round_id) ==
    IF RoundIndex(gs, round_id) = 0 THEN <<>>
    ELSE gs.active_rounds[RoundIndex(gs, round_id)].bets

RoundIds(gs) == {gs.active_rounds[i].round_id : i \in 1..Len(gs.active_rounds)}

\* C13: a successful place_bet(user, dice_face, amount) takes exactly amount
\* from that user's balance and appends exactly one bet, carrying the user,
\* the face, the amount and the id of the receiving round, at the end of one
\* BETTING round of that user; it changes no other balance, no other round's
\* bets and no jackpot pool
C13_PlaceBetEffect ==
    [][(Called("place_bet") /\ last'.ok) =>
          LET u == last'.req[1]
              f == last'.req[2]
              a == last'.req[3]
              rid == last'.data.round_id
              i == RoundIndex(game_state', rid)
              bets == game_state'.active_rounds[i].bets
              bet == bets[Len(bets)]
          IN  /\ game_state'.users[u].balance = game_state.users[u].balance - a
              /\ \A v \in Users \ {u} :
                    game_state'.users[v].balance = game_state.users[v].balance
              /\ \A r \in Rooms :
                    game_state'.rooms[r].jackpot_pool = game_state.rooms[r].jackpot_pool
              /\ i # 0
              /\ game_state'.active_rounds[i].user_id = u
              /\ game_state'.active_rounds[i].status = BETTING_PHASE
              /\ Len(bets) = Len(BetsOf(game_state, rid)) + 1
              /\ SubSeq(bets, 1, Len(bets) - 1) = BetsOf(game_state, rid)
              /\ bet.user_id = u /\ bet.dice_face = f /\ bet.amount = a /\ bet.round_id = rid
              /\ RoundIds(game_state) \subseteq RoundIds(game_state')
              /\ \A r \in RoundIds(game_state') \ {rid} :
                    BetsOf(game_state', r) = BetsOf(game_state, r)]_vars

\* a bet has been accepted into a round that held a bet already
C13_SecondBetAccepted ==
    /\ last.cmd = "place_bet"
    /\ last.ok
    /\ Len(BetsOf(game_state, last.data.round_id)) = 2

C15_RolloverAfterCap ==
    [][(/\ Called("place_bet")
        /\ last'.ok
        /\ last'.req[4] = None
        /\ FirstBettingIndex(game_state, last'.req[1]) # 0) =>
          LET old == game_state.active_rounds[FirstBettingIndex(game_state, last'.req[1])]
          IN  IF Len(old.bets) < MAX_BETS_PER_ROUND
              THEN last'.data.round_id = old.round_id
              ELSE /\ last'.data.round_id \notin RoundIds(game_state)
                   /\ BetsOf(game_state', old.round_id) = old.bets]_vars

\* C16: in every reachable state every round of the active set holds at most
\* MAX_BETS_PER_ROUND bets, however they were placed
C16_BetsWithinCap ==
    \A i \in 1..Len(game_state.active_rounds) :
        Len(game_state.active_rounds[i].bets) <= MAX_BETS_PER_ROUND

\* a round is full
C16_RoundFull ==
    \E i \in 1..Len(game_state.active_rounds) :
        Len(game_state.active_rounds[i].bets) = MAX_BETS_PER_ROUND

\* the bets of a round as they were placed: without the won and payout
\* fields, which settlement fills in
Placed(bets) ==
    [k \in 1..Len(bets) |->
        [bet_id |-> bets[k].bet_id, user_id |-> bets[k].user_id,
         round_id |-> bets[k].round_id, dice_face |-> bets[k].dice_face,
         amount |-> bets[k].amount]]

StatusOf(gs, round_id) == gs.active_rounds[RoundIndex(gs, round_id)].status

\* C17: a round that is WAITING_RESULTS never returns to BETTING and the bets
\* placed in it never change again; while a round is BETTING its bets change
\* only by appending at the end, so no bet is removed or reordered and the
\* order of round.bets is the order of placement
C17_RoundLifeMonotone ==
    [][\A r \in RoundIds(game_state) \cap RoundIds(game_state') :
          LET before == Placed(BetsOf(game_state, r))
              after == Placed(BetsOf(game_state', r))
          IN  IF StatusOf(game_state, r) = WAITING_RESULTS
              THEN /\ StatusOf(game_state', r) = WAITING_RESULTS
                   /\ after = before
              ELSE /\ Len(after) >= Len(before)
                   /\ SubSeq(after, 1, Len(before)) = before]_vars

\* a round has been finished with MAX_BETS_PER_ROUND bets, which it holds in
\* the order they were placed
C17_FinishedWithBets ==
    \E i \in 1..Len(game_state.active_rounds) :
        LET round == game_state.active_rounds[i]
        IN  /\ round.status = WAITING_RESULTS
            /\ Len(round.bets) = MAX_BETS_PER_ROUND
            /\ \A k \in 1..Len(round.bets) : round.bets[k].bet_id = <<round.round_id, k>>

\* C18: finish_betting(user, r) succeeds when r is not in the active set,
\* fails when r belongs to another user, succeeds without change when r is
\* WAITING_RESULTS already, fails when r is BETTING without bets, and
\* otherwise moves r from BETTING to WAITING_RESULTS and succeeds; a second
\* call on the same round right after a successful one succeeds and changes
\* nothing; no call changes a balance, a bet or a jackpot pool
C18_FinishBettingOutcomes ==
    [][Called("finish_betting") =>
          LET u == last'.req[1]
              r == last'.req[2]
              i == RoundIndex(game_state, r)
              round == game_state.active_rounds[i]
          IN  /\ IF i = 0
                 THEN last'.ok /\ game_state' = game_state
                 ELSE IF round.user_id # u
                 THEN ~last'.ok /\ game_state' = game_state
                 ELSE IF round.status = WAITING_RESULTS
                 THEN last'.ok /\ game_state' = game_state
                 ELSE IF round.bets = <<>>
                 THEN ~last'.ok /\ game_state' = game_state
                 ELSE /\ last'.ok
                      /\ game_state' = [game_state EXCEPT
                                           !.active_rounds[i].status = WAITING_RESULTS]
              /\ (last.cmd = "finish_betting" /\ last.ok /\ last.req = last'.req) =>
                    last'.ok /\ game_state' = game_state
              /\ game_state'.users = game_state.users
              /\ game_state'.rooms = game_state.rooms
              /\ \A q \in RoundIds(game_state) : BetsOf(game_state', q) = BetsOf(game_state, q)]_vars

\* finish_betting has been called a second time on a round it had finished
C18_FinishedTwice ==
    /\ last.cmd = "finish_betting"
    /\ last.ok
    /\ last.message = "Round already finished"
    /\ BetsOf(game_state, last.req[2]) # <<>>

\* what a bet pays when the dice shows dice_result
PayoutOf(bet, dice_result) ==
    IF bet.dice_face = dice_result THEN PAYOUT_MULTIPLIER * bet.amount ELSE 0

\* C19: calculate_results on the caller's own active round with dice d sets,
\* for each bet, won = (dice_face = d) and payout = 6 x amount if won else 0,
\* reports total_winnings as the sum of the payouts, adds total_winnings to
\* the user's balance, removes the round from the active set and reports
\* new_balance equal to the user's balance after the credit
C19_SettleEffect ==
    [][Called("calculate_results") =>
          LET u == last'.req[1]
              r == last'.req[2]
              d == last'.req[3]
              i == RoundIndex(game_state, r)
              bets == game_state.active_rounds[i].bets
              results == last'.data
          IN  (i # 0 /\ game_state.active_rounds[i].user_id = u) =>
                  /\ last'.ok
                  /\ Len(results.bet_results) = Len(bets)
                  /\ \A k \in 1..Len(bets) :
                        /\ results.bet_results[k].bet_id = bets[k].bet_id
                        /\ results.bet_results[k].amount = bets[k].amount
                        /\ results.bet_results[k].won =
                               (IF bets[k].dice_face = d THEN "True" ELSE "False")
                        /\ results.bet_results[k].payout = PayoutOf(bets[k], d)
                  /\ results.total_winnings =
                         SumSeq([k \in 1..Len(bets) |-> PayoutOf(bets[k], d)])
                  /\ game_state'.users[u].balance =
                         game_state.users[u].balance + results.total_winnings
                  /\ RoundIndex(game_state', r) = 0
                  /\ results.new_balance = game_state'.users[u].balance]_vars

\* a round of two bets has been settled on a winning roll
C19_TwoBetsWon ==
    /\ last.cmd = "calculate_results"
    /\ last.message = "Results calculated successfully"
    /\ Len(last.data.bet_results) = 2
    /\ last.data.total_winnings > 0
    /\ last.data.new_balance = Balance(last.req[1])

\* C20: calculate_results on a round id that is not in the active set returns
\* success with an empty bet-result list and total_winnings 0 and changes no
\* balance, no jackpot pool and no round; a round settled twice in succession
\* is credited once
C20_SettleReplay ==
    [][Called("calculate_results") =>
          LET r == last'.req[2]
          IN  /\ RoundIndex(game_state, r) = 0 =>
                    /\ last'.ok
                    /\ last'.data.bet_results = <<>>
                    /\ last'.data.total_winnings = 0
                    /\ game_state' = game_state
                    /\ ledger' = ledger
              /\ (last.cmd = "calculate_results" /\ last.ok /\ last.req[2] = r) =>
                    /\ last'.ok
                    /\ last'.data.bet_results = <<>>
                    /\ game_state'.users = game_state.users
                    /\ game_state'.rooms = game_state.rooms
              /\ \A x \in DOMAIN ledger'.settled : ledger'.settled[x].times = 1]_vars

\* a round that paid winnings has been settled a second time
C20_ReplayAfterWin ==
    /\ last.cmd = "calculate_results"
    /\ last.message = "Results already calculated"
    /\ last.req[2] \in DOMAIN ledger.settled
    /\ ledger.settled[last.req[2]].total_winnings > 0
    /\ ledger.settled[last.req[2]].times = 1

\* the jackpot pool of every room
Pools(gs) == [q \in DOMAIN gs.rooms |-> gs.rooms[q].jackpot_pool]

\* C21: settling a round whose bets total S adds floor(S / 100) to the
\* jackpot pool of the room recorded in the round when it was created and
\* leaves the pool of every other room as it was; no other operation
\* changes a pool
C21_JackpotToRoundRoom ==
    [][LET u == last'.req[1]
           r == last'.req[2]
           i == RoundIndex(game_state, r)
           round == game_state.active_rounds[i]
           S == SumSeq([k \in 1..Len(round.bets) |-> round.bets[k].amount])
       IN  IF Called("calculate_results") /\ i # 0 /\ round.user_id = u
           THEN \A q \in Rooms :
                   game_state'.rooms[q].jackpot_pool =
                       game_state.rooms[q].jackpot_pool
                           + (IF q = round.room_id THEN S \div 100 ELSE 0)
           ELSE Pools(game_state') = Pools(game_state)]_vars

\* the commands that need a login
GatedCommands ==
    {"ROOM_JOIN_REQ", "SNAPSHOT_REQ", "BET_PLACEMENT_REQ", "BET_FINISHED_REQ",
     "RECKON_RESULT_REQ"}

\* the user a connection is bound to: add_connection binds it to no user when
\* it opens and to the user when a login on it succeeds
BoundUser(gs, c) ==
    IF c \in DOMAIN gs.connections THEN gs.connections[c] ELSE None

AnsweredAuthRequired(event) ==
    /\ event.rsp = "ERROR_RSP"
    /\ event.data = [error_code |-> ERROR_AUTH_REQUIRED]

\* C22: on a connection on which no login has succeeded, each of the five
\* gated commands is answered with ERROR_RSP{AUTH_REQUIRED = 1001} and changes
\* no user, room or round
C22_GateRefusesStrangers ==
    [][(last'.cmd \in GatedCommands /\ BoundUser(game_state, last'.task) = None) =>
          /\ AnsweredAuthRequired(last')
          /\ game_state' = game_state
          /\ ledger' = ledger]_vars

\* a settlement of user 1's round was asked for on a connection without a
\* login and refused
C22_StrangerRefused ==
    /\ last.cmd = "RECKON_RESULT_REQ"
    /\ BoundUser(game_state, last.task) = None
    /\ AnsweredAuthRequired(last)
    /\ RoundIndex(game_state, last.req[1]) # 0

\* C23: a gated command arriving on a connection whose user's session has
\* expired (now - last_activity > SESSION_TIMEOUT) or whose token the sweeper
\* has cleared is answered with ERROR_RSP{AUTH_REQUIRED} and is not executed
C23_ExpiredSessionRefused ==
    [][LET u == BoundUser(game_state, last'.task)
       IN  (/\ last'.cmd \in GatedCommands
            /\ u \in Users
            /\ is_session_expired(game_state.users[u], now)) =>
               /\ AnsweredAuthRequired(last')
               /\ game_state' = game_state
               /\ ledger' = ledger]_vars

\* the frames of user u that reached a handler since the origin of u's
\* current window of the limiter
InWindow(limits, history, u) ==
    IF u \in DOMAIN limits
    THEN Cardinality({k \in 1..Len(history[u]) : history[u][k] >= limits[u][1]})
    ELSE 0

\* a frame that passes the length checks
WellFormed(raw_data) ==
    /\ Len(raw_data) >= HEADER_SIZE
    /\ Len(raw_data) = HEADER_SIZE + unpack_header(raw_data).length

AnsweredError(event, error_code) ==
    /\ event.rsp = "ERROR_RSP"
    /\ event.data = [error_code |-> error_code]

\* C25: for every user and every window of the limiter (the 60 seconds that
\* start with the first frame counted after the previous origin is 60
\* seconds old) at most RATE_LIMIT of the user's frames reach a handler, and
\* a frame that arrives in a window that has had RATE_LIMIT of them is
\* answered with ERROR_RSP{RATE_LIMIT} and reaches no handler
C25_WindowCap ==
    [][/\ \A u \in Users : InWindow(rate_limits', dispatched', u) <= RATE_LIMIT
       /\ LET u == BoundUser(game_state, last'.task)
          IN  (/\ last'.cmd = "frame"
               /\ WellFormed(last'.req)
               /\ u \in DOMAIN rate_limits
               /\ now - rate_limits[u][1] < RATE_WINDOW
               /\ InWindow(rate_limits, dispatched, u) >= RATE_LIMIT) =>
                  /\ AnsweredError(last', ERROR_RATE_LIMIT)
                  /\ dispatched' = dispatched
                  /\ rate_limits' = rate_limits]_vars

\* C25 as stated, a rolling window: no span shorter than 60 seconds holds
\* more than RATE_LIMIT frames of one user that reached a handler
C25_RollingWindow ==
    \A u \in Users : \A i, j \in 1..Len(dispatched[u]) :
        (i <= j /\ dispatched[u][j] - dispatched[u][i] < RATE_WINDOW) =>
            j - i + 1 <= RATE_LIMIT

\* a well-formed frame was refused by the limiter in a full window
C25_Limited ==
    /\ last.cmd = "frame"
    /\ AnsweredError(last, ERROR_RATE_LIMIT)
    /\ InWindow(rate_limits, dispatched, BoundUser(game_state, last.task)) = RATE_LIMIT

Last(s) == s[Len(s)]

\* user u is logged in, and u's most recent request was handled while the
\* session was alive and is less than SESSION_TIMEOUT old
InUse(u) ==
    /\ game_state.users[u].session_token # None
    /\ dispatched[u] # <<>>
    /\ Last(dispatched[u]) - game_state.users[u].last_activity <= SESSION_TIMEOUT
    /\ now - Last(dispatched[u]) < SESSION_TIMEOUT

\* C24: a logged-in user whose most recent handled request is less than
\* SESSION_TIMEOUT old is not treated as expired, however long ago the login
\* was: the sweeper does not clear the token or take the user out of the
\* room, and a login as that user is rejected
C24_ActiveSessionKept ==
    [][\A u \in Users : InUse(u) =>
          /\ last'.cmd = "sweep" =>
                /\ game_state'.users[u].session_token = game_state.users[u].session_token
                /\ game_state'.users[u].current_room = game_state.users[u].current_room
          /\ (last'.cmd = "LOGIN_REQ" /\ last'.req[1] = u) => ~last'.ok]_vars

\* the round with this id, as it is in the active set
RoundOf(gs, round_id) == gs.active_rounds[RoundIndex(gs, round_id)]

\* C26: cleanup_stale_rounds removes from the active set exactly the rounds
\* whose age now - created_at exceeds STALE_ROUND_TIMEOUT, in BETTING and in
\* WAITING_RESULTS alike, leaves the younger rounds as they are and changes
\* no balance and no jackpot pool
C26_StaleSweepEffect ==
    [][last'.cmd = "cleanup_stale_rounds" =>
          /\ RoundIds(game_state') =
                {q \in RoundIds(game_state) :
                    now - RoundOf(game_state, q).created_at <= STALE_ROUND_TIMEOUT}
          /\ \A q \in RoundIds(game_state') :
                RoundOf(game_state', q) = RoundOf(game_state, q)
          /\ Len(game_state'.active_rounds) = Cardinality(RoundIds(game_state'))
          /\ game_state'.users = game_state.users
          /\ game_state'.rooms = game_state.rooms]_vars

\* the sweep has removed a stale round and kept a younger one that had aged
\* too; the stake of the removed round stays debited
C26_StaleRemovedYoungKept ==
    /\ last.cmd = "cleanup_stale_rounds"
    /\ next_round_id > MaxRounds
    /\ Len(game_state.active_rounds) = 1
    /\ now - game_state.active_rounds[1].created_at > 0
    /\ \E u \in Users :
          /\ Balance(u) = DEFAULT_BALANCE - ledger.staked[u]
          /\ ledger.staked[u] > 0
          /\ \A i \in 1..Len(game_state.active_rounds) :
                game_state.active_rounds[i].user_id # u

\* round r is in the active set and older than STALE_ROUND_TIMEOUT
Stale(r) ==
    /\ RoundIndex(game_state, r) # 0
    /\ now - RoundOf(game_state, r).created_at > STALE_ROUND_TIMEOUT

\* C27: the sweeper keeps cycling, so every round left unsettled in the
\* active set is removed at last once it is older than STALE_ROUND_TIMEOUT
C27_StaleRoundsSwept ==
    \A r \in 1..MaxRounds : Stale(r) ~> (RoundIndex(game_state, r) = 0)

\* a frame of connection c was received and its handler is suspended in the
\* queue of the store mutex: the response is still to be sent
RequestPending(c) ==
    pc[c] \in {"lock:authenticate_user", "lock:join_room",
               "lock:create_game_round", "lock:finish_game_round"}

\* the task that holds the store mutex is queued for that same mutex, behind
\* which it stays for as long as the server runs
HolderWaitsForItself ==
    /\ running
    /\ \E t \in lock : pc[t] = "lock:leave_room"

\* C28: every received frame produces its response: no request waits for a
\* mutex that its holder cannot give back, which is a request whose response
\* is never sent
C28_EveryFrameAnswered ==
    \A c \in Conns : ~(RequestPending(c) /\ HolderWaitsForItself)

\* a message shorter than the header, or whose length field is not the
\* number of payload bytes that follow the header
Malformed(raw_data) ==
    \/ Len(raw_data) < HEADER_SIZE
    \/ SubSeq(raw_data, 5, 8) # pack_u32(Len(raw_data) - HEADER_SIZE)

\* C29: a malformed message is answered with ERROR_RSP{INVALID_FORMAT}, and
\* nothing else happens: no handler has run, the store, the rate-limit
\* records and the frames counted as dispatched are as before, and the
\* connection is where it was, receiving, so that the frames which follow
\* are processed as if the malformed one had not been sent
C29_MalformedFrameRefused ==
    [][(last'.cmd = "frame" /\ Malformed(last'.req)) =>
          /\ AnsweredError(last', ERROR_INVALID_FORMAT)
          /\ pc'[last'.task] = "recv"
          /\ UNCHANGED <<game_state, lock, waiters, pc, locals, running, now,
                         next_round_id, ledger, rate_limits, dispatched>>]_vars

\* a frame whose length field is wrong was refused with INVALID_FORMAT on
\* the connection of a user whose window is full: the frame was not counted
\* and not answered by the limiter
C29_MismatchRefused ==
    /\ last.cmd = "frame"
    /\ Len(last.req) >= HEADER_SIZE
    /\ Malformed(last.req)
    /\ AnsweredError(last, ERROR_INVALID_FORMAT)
    /\ BoundUser(game_state, last.task) # None
    /\ BoundUser(game_state, last.task) \in DOMAIN rate_limits
    /\ rate_limits[BoundUser(game_state, last.task)][2] = RATE_LIMIT

\* the connections that handle_client serves: admitted, reading frames
Served == {c \in Conns : pc[c] = "recv"}

\* C30: at most max_connections connections are served at a time
C30_ConnectionCeiling ==
    Cardinality(Served) <= max_connections

\* the rounds of the active set that belong to other users than u, in order
RoundsOfOthers(gs, u) ==
    SelectSeq(gs.active_rounds, LAMBDA round : round.user_id # u)

\* C31: place_bet calls of distinct users, in whatever order they run: a call
\* without round_id for a user who is in a room and can pay a valid bet
\* succeeds whatever the calls of the other users have done before; the
\* round that receives the bet belongs to the caller, the rounds of the
\* other users are as they were and no other user's balance has changed
C31_ConcurrentBetsSucceed ==
    [][(/\ Called("place_bet")
        /\ last'.req[1] \in Users
        /\ last'.req[2] \in 1..6
        /\ last'.req[3] \in MIN_BET..MAX_BET
        /\ last'.req[4] = None
        /\ game_state.users[last'.req[1]].current_room # None
        /\ game_state.users[last'.req[1]].balance >= last'.req[3]) =>
          LET u == last'.req[1]
              i == RoundIndex(game_state', last'.data.round_id)
          IN  /\ last'.ok
              /\ i # 0
              /\ game_state'.active_rounds[i].user_id = u
              /\ RoundsOfOthers(game_state', u) = RoundsOfOthers(game_state, u)
              /\ \A v \in Users \ {u} :
                    game_state'.users[v].balance = game_state.users[v].balance]_vars

\* two users have bet one after the other: each holds a round of its own
\* with a bet in it, and the call that returned last succeeded
C31_BothUsersBet ==
    /\ last.cmd = "place_bet"
    /\ last.ok
    /\ \A u \in Users :
          \E i \in 1..Len(game_state.active_rounds) :
             /\ game_state.active_rounds[i].user_id = u
             /\ game_state.active_rounds[i].status = BETTING_PHASE
             /\ game_state.active_rounds[i].bets # <<>>

\* C32: the round_id of a successful BET_PLACEMENT_RSP is the id of the
\* round of the active set that holds the bet whose bet_id the response
\* carries
C32_ReturnedRoundHoldsBet ==
    [][(/\ last'.cmd = "BET_PLACEMENT_REQ"
        /\ last'.rsp = "BET_PLACEMENT_RSP"
        /\ last'.ok) =>
          \E k \in 1..Len(BetsOf(game_state', last'.data.round_id)) :
             BetsOf(game_state', last'.data.round_id)[k].bet_id = last'.data.bet_id]_vars

\* C33: no round has its total_winnings credited to the balance, and its
\* jackpot contribution added to the pool, more than once
C33_SettledAtMostOnce ==
    \A r \in DOMAIN ledger.settled : ledger.settled[r].times <= 1

\* C34: the two connection maps are inverse to each other on the user ids:
\* connections[c] = u exactly when user_connections[u] = c, so that no two
\* open connections are bound to one user
C34_ConnectionMapsInverse ==
    \A c \in Conns, u \in Users :
        (c \in DOMAIN game_state.connections /\ game_state.connections[c] = u)
        <=> (u \in DOMAIN game_state.user_connections
             /\ game_state.user_connections[u] = c)

\* C35: every user with a live session (a token, not past the timeout) is
\* the user of an open connection
C35_LiveSessionHasConnection ==
    \A u \in Users :
        Live(u) => \E c \in DOMAIN game_state.connections :
                      game_state.connections[c] = u

\* C36: a user's current_room is r exactly when the user is among the
\* current_players of room r
C36_MembershipConsistent ==
    \A u \in Users, r \in Rooms :
        (game_state.users[u].current_room = r)
        <=> (u \in game_state.rooms[r].current_players)

\* C37: a place_bet that returns failure leaves the store as it was: every
\* balance, every round's bets and status, and the active-round set
C37_FailedBetAltersNothing ==
    [][(Called("place_bet") /\ ~last'.ok) =>
          /\ game_state'.active_rounds = game_state.active_rounds
          /\ \A u \in Users :
                game_state'.users[u].balance = game_state.users[u].balance]_vars

\* C38: a snapshot changes nothing and reports the user's balance and room;
\* when the user has a BETTING round it reports BETTING with the bets of that
\* round, and when the user has no round in the active set it reports
\* NO_ACTIVE_ROUND and no bets
C38_SnapshotReportsBettingRound ==
    [][(last'.cmd = "SNAPSHOT_REQ" /\ last'.rsp = "SNAPSHOT_RSP") =>
          LET u == BoundUser(game_state, last'.task)
              i == FirstBettingIndex(game_state, u)
              snapshot == last'.data
          IN  /\ game_state' = game_state
              /\ snapshot.user_balance = game_state.users[u].balance
              /\ snapshot.current_room = game_state.users[u].current_room
              /\ i # 0 =>
                    /\ snapshot.round_status = BETTING_PHASE
                    /\ snapshot.active_bets = game_state.active_rounds[i].bets
              /\ FirstRoundIndex(game_state, u) = 0 =>
                    /\ snapshot.round_status = NO_ACTIVE_ROUND
                    /\ snapshot.active_bets = <<>>]_vars

\* the limiter's records of the users other than u
OtherRecords(limits, u) == [v \in DOMAIN limits \ {u} |-> limits[v]]

\* C39: the limiter keeps one record <<origin, count>> per user.  A frame
\* that passes the length checks on the connection of user u: less than
\* RATE_WINDOW after the origin it is counted and passed on when count is
\* below RATE_LIMIT, and answered with ERROR_RSP{RATE_LIMIT}, the record, the
\* store and the dispatched frames as before, when count has reached
\* RATE_LIMIT; RATE_WINDOW or more after the origin (or with no record yet) it
\* starts a window <<now, 1>>.  The records of other users never change, and
\* a frame on a connection without user changes no record and is not
\* answered by the limiter
C39_WindowCounting ==
    [][(last'.cmd = "frame" /\ ~Malformed(last'.req)) =>
          LET u == BoundUser(game_state, last'.task)
          IN  IF u = None
              THEN /\ rate_limits' = rate_limits
                   /\ ~AnsweredError(last', ERROR_RATE_LIMIT)
              ELSE /\ OtherRecords(rate_limits', u) = OtherRecords(rate_limits, u)
                   /\ u \in DOMAIN rate_limits'
                   /\ IF u \in DOMAIN rate_limits /\ now - rate_limits[u][1] < RATE_WINDOW
                      THEN IF rate_limits[u][2] < RATE_LIMIT
                           THEN /\ rate_limits'[u] = <<rate_limits[u][1], rate_limits[u][2] + 1>>
                                /\ ~AnsweredError(last', ERROR_RATE_LIMIT)
                           ELSE /\ rate_limits'[u] = rate_limits[u]
                                /\ AnsweredError(last', ERROR_RATE_LIMIT)
                                /\ game_state' = game_state
                                /\ dispatched' = dispatched
                      ELSE /\ rate_limits'[u] = <<now, 1>>
                           /\ ~AnsweredError(last', ERROR_RATE_LIMIT)]_vars

\* a frame that reached its handler has opened a new window for its user,
\* RATE_WINDOW or more after the server started
C39_NewWindowOpened ==
    /\ last.cmd = "frame"
    /\ last.rsp = "SNAPSHOT_RSP"
    /\ now >= RATE_WINDOW
    /\ BoundUser(game_state, last.task) \in DOMAIN rate_limits
    /\ rate_limits[BoundUser(game_state, last.task)] = <<now, 1>>

\* the connection of handler c has closed and no callback of c is scheduled
ClosedAndDrained(c) ==
    /\ handlers[c].ws = "closed"
    /\ \A k \in 1..Len(callbacks) : callbacks[k].handler # c

\* a handler other than c holds user u now
HeldElsewhere(u, c) ==
    \E d \in Conns \ {c} : handlers[d].authenticated /\ handlers[d].user_id = u

\* C40: once a connection has closed and every callback scheduled for it has
\* run, each user it authenticated has no session token and is in no room
\* (unless another connection has logged that user in since)
C40_ClosedConnectionEndsSession ==
    \A c \in Conns : ClosedAndDrained(c) =>
        \A u \in handlers[c].logged_in :
            \/ HeldElsewhere(u, c)
            \/ /\ game_state.users[u].session_token = None
               /\ game_state.users[u].current_room = None

====
